---------------------------- MODULE Spec2Model ----------------------------
(***************************************************************************)
(* RailStream: the depot agent's telemetry engine                          *)
(* (depot-agent/src/trainSimulator.js), its tick driver                    *)
(* (depot-agent/src/index.js) and the standalone simulator (simulate.js,   *)
(* phase-based variant).                                                   *)
(*                                                                         *)
(* Numbers.  The engine computes in floating point; the model computes in  *)
(* exact fixed point:                                                      *)
(*   speed, rates        hundredths of a km/h   (80 km/h = 8000)           *)
(*   segProgress         1/120000 of a segment  (speed/1200 per tick, so   *)
(*                       a speed of h hundredths adds exactly h units)     *)
(*   weights             thousandths            (0.55 = 550)               *)
(*   brake pressure, cabin temperature, motor temperature, battery         *)
(*   voltage             hundredths                                        *)
(* Every Math.random() of the code is an input u of the action that makes  *)
(* the call: u thousandths, 0 <= u <= 999, drawn from a small set.         *)
(***************************************************************************)
EXTENDS Integers, Sequences, FiniteSets, TLC

\* Length of the station list of the line (27 or 13 stops in trainData.js;
\* the model runs a shorter route).
NumStations == 3

\* How many broker connections one process run is followed through.
MaxConnects == 3

\* How many callbacks of the telemetry loops one process run is followed
\* through.
MaxTicks == 12

\* How far past 50000 km the odometer is followed, in hundredths of a km.
MaxTravel == 20

Min2(a, b) == IF a < b THEN a ELSE b
Max2(a, b) == IF a > b THEN a ELSE b

\* A clamp that has lost its upper bound, Math.max(value, min): with it the
\* speed is no longer kept at or below MAX_SPEED.
clampNoMax(value, min, max) == Max2(value, min)

\* A clamp that has lost its lower bound, Math.min(value, max): with it a
\* measurement is no longer lifted to the floor of a new state.
clampNoMin(value, min, max) == Min2(value, max)

\* clamp(value, min, max) = Math.min(Math.max(value, min), max)
clamp(value, min, max) == Min2(Max2(value, min), max)

\* Math.round(x * 10) / 10 on hundredths: to the nearest tenth, halves up.
Round1(h) == ((h + 5) \div 10) * 10

\* Math.round(x) on hundredths: to the nearest unit, halves up.
Round0(h) == ((h + 50) \div 100) * 100

----------------------------------------------------------------------------
\* Weighted selection

\* STATUS_WEIGHTS, in the order Object.entries iterates it.
STATUS_WEIGHTS ==
  << <<"IN_SERVICE", 550>>, <<"STANDBY", 200>>, <<"IN_DEPOT", 150>>,
     <<"MAINTENANCE", 70>>, <<"FAULT", 30>> >>

\* COMPONENT_STATE
COMPONENT_STATE == << <<"NORMAL", 880>>, <<"WARNING", 90>>, <<"FAULT", 30>> >>

Statuses == {"IN_SERVICE", "STANDBY", "IN_DEPOT", "MAINTENANCE", "FAULT"}
CompStates == {"NORMAL", "WARNING", "FAULT"}
PHASES == <<"DWELL", "ACCEL", "CRUISE", "BRAKE">>

RECURSIVE pickFromStrict(_, _, _)
\* A loop that returns an entry only when the remainder falls below 0.
pickFromStrict(weights, i, r) ==
  IF i > Len(weights) THEN weights[1][1]
  ELSE IF r - weights[i][2] < 0 THEN weights[i][1]
  ELSE pickFromStrict(weights, i + 1, r - weights[i][2])

RECURSIVE pickFrom(_, _, _)
\* The loop of weightedPick from entry i on, r being the remainder so far.
pickFrom(weights, i, r) ==
  IF i > Len(weights) THEN weights[1][1]
  ELSE IF r - weights[i][2] <= 0 THEN weights[i][1]
  ELSE pickFrom(weights, i + 1, r - weights[i][2])

RECURSIVE totalFrom(_, _)
\* Object.values(weights).reduce((a, b) => a + b, 0)
totalFrom(weights, i) ==
  IF i > Len(weights) THEN 0 ELSE weights[i][2] + totalFrom(weights, i + 1)

\* weightedPick(weights), u being its Math.random().
weightedPick(weights, u) ==
  pickFrom(weights, 1, (u * totalFrom(weights, 1)) \div 1000)

\* rand(min, max) = Math.random() * (max - min) + min
rand(min, max, u) == min + (u * (max - min)) \div 1000

\* randInt(min, max) = Math.floor(rand(min, max + 1)), min and max whole numbers.
randInt(min, max, u) == min + (u * (max + 1 - min)) \div 1000


----------------------------------------------------------------------------
\* Vehicle state (trainStates[trainId])

\* getStationsForLine(line): the stops of the line, in route order (indexed
\* from 0 as in the code).
stations == [i \in 0..(NumStations - 1) |-> <<"stop", i>>]

\* MAX_SPEED
MAX_SPEED == 80 * 100

\* The segProgress at which braking starts: 0.68.
BRAKE_CUE == 68 * 1200

\* One whole segment: segProgress 1.0.
SEGMENT == 100 * 1200

\* The odometer is followed up to this reading, in hundredths of a km; a
\* reading beyond it is kept as this one.
OdometerCap == 100 * 50000 + MaxTravel

\* An odometer reading as the model keeps it.
capped(km) == Min2(km, OdometerCap)

\* The random calls of initTrainState, in the order of the code:
\*   uIdx (stationIndex), uStatus, uPhase, uSpeed, uDir, uOdo, uMaint,
\*   uDwell, uProg.
initTrainState(u) ==
  LET stationIndex == randInt(0, NumStations - 1, u.uIdx)
      status == weightedPick(STATUS_WEIGHTS, u.uStatus)
      phase == IF status = "IN_SERVICE"
               THEN PHASES[randInt(0, 3, u.uPhase) + 1] ELSE "DWELL"
  IN [ status |-> status,
       speed |-> IF phase = "CRUISE" THEN 100 * randInt(60, 80, u.uSpeed)
                 ELSE IF phase = "ACCEL" THEN 100 * randInt(10, 50, u.uSpeed)
                 ELSE IF phase = "BRAKE" THEN 100 * randInt(5, 40, u.uSpeed)
                 ELSE 0,
       currentStation |-> stations[stationIndex],
       stationIndex |-> stationIndex,
       direction |-> IF u.uDir > 500 THEN 1 ELSE -1,
       odometer |-> capped(100 * randInt(50000, 500000, u.uOdo)),
       lastMaintenanceKm |-> 100 * randInt(0, 49999, u.uMaint),
       phase |-> phase,
       dwellTimer |-> IF phase = "DWELL" THEN randInt(8, 20, u.uDwell) ELSE 0,
       segProgress |-> IF phase = "DWELL" THEN 0
                       ELSE rand(5 * 1200,
                                 IF phase = "BRAKE" THEN 95 * 1200 ELSE 60 * 1200,
                                 u.uProg),
       components |->
         [ doors |-> [state |-> "NORMAL", faultCars |-> << >>],
           brakes |-> [state |-> "NORMAL", pressure |-> 100 * 100],
           hvac |-> [state |-> "NORMAL", cabinTemp |-> 24 * 100],
           powerRail |-> [state |-> "NORMAL"],
           traction |-> [state |-> "NORMAL", motorTemp |-> 50 * 100],
           battery |-> [state |-> "NORMAL", voltage |-> 7750],
           cctv |-> [state |-> "NORMAL", activeCams |-> 24] ],
       alerts |-> << >> ]

----------------------------------------------------------------------------
\* Speed state machine

\* An arrival that wraps around to the other end of the line instead of
\* turning back: the direction never changes.
arriveWrap(s, uDwell) ==
  LET next == s.stationIndex + s.direction
      idx == IF next >= NumStations THEN 0
             ELSE IF next < 0 THEN NumStations - 1 ELSE next
  IN [s EXCEPT !.stationIndex = idx,
               !.currentStation = stations[idx],
               !.phase = "DWELL", !.dwellTimer = randInt(8, 20, uDwell),
               !.segProgress = 0]

\* An arrival that starts a dwell of randInt(5, 20) ticks.
arriveShortDwell(s, uDwell) ==
  LET next == s.stationIndex + s.direction
      idx == IF next >= NumStations THEN NumStations - 2
             ELSE IF next < 0 THEN 1 ELSE next
      dir == IF next >= NumStations THEN -1
             ELSE IF next < 0 THEN 1 ELSE s.direction
  IN [s EXCEPT !.stationIndex = idx, !.direction = dir,
               !.currentStation = stations[idx],
               !.phase = "DWELL", !.dwellTimer = randInt(5, 20, uDwell),
               !.segProgress = 0]

\* An arrival that does not dwell: the vehicle leaves in the same tick.
arriveAndGo(s, uDwell) ==
  LET next == s.stationIndex + s.direction
      idx == IF next >= NumStations THEN NumStations - 2
             ELSE IF next < 0 THEN 1 ELSE next
      dir == IF next >= NumStations THEN -1
             ELSE IF next < 0 THEN 1 ELSE s.direction
  IN [s EXCEPT !.stationIndex = idx, !.direction = dir,
               !.currentStation = stations[idx],
               !.phase = "ACCEL", !.dwellTimer = 0,
               !.segProgress = 0]

\* An arrival that turns the vehicle around at every stop.
arriveTurnsBack(s, uDwell) ==
  LET next == s.stationIndex + s.direction
      idx == IF next >= NumStations THEN NumStations - 2
             ELSE IF next < 0 THEN 1 ELSE next
  IN [s EXCEPT !.stationIndex = idx, !.direction = -s.direction,
               !.currentStation = stations[idx],
               !.phase = "DWELL", !.dwellTimer = randInt(8, 20, uDwell),
               !.segProgress = 0]

\* The BRAKE branch's arrival: advance to the next station, reflecting at
\* the ends of the route, and start a dwell of randInt(8, 20) ticks.
arrive(s, uDwell) ==
  LET next == s.stationIndex + s.direction
      idx == IF next >= NumStations THEN NumStations - 2
             ELSE IF next < 0 THEN 1 ELSE next
      dir == IF next >= NumStations THEN -1
             ELSE IF next < 0 THEN 1 ELSE s.direction
  IN [s EXCEPT !.stationIndex = idx, !.direction = dir,
               !.currentStation = stations[idx],
               !.phase = "DWELL", !.dwellTimer = randInt(8, 20, uDwell),
               !.segProgress = 0]

\* A speed profile whose CRUISE branch has no floor of 88% of MAX_SPEED.
speedPhaseNoFloor(s, u) ==
  LET ACCEL_RATE == rand(600, 900, u.uAccel)
      BRAKE_RATE == rand(900, 1300, u.uBrake)
  IN CASE s.phase = "DWELL" ->
            LET t == s.dwellTimer - 1
            IN IF t <= 0
               THEN [s EXCEPT !.speed = 0, !.dwellTimer = t,
                              !.phase = "ACCEL", !.segProgress = 0]
               ELSE [s EXCEPT !.speed = 0, !.dwellTimer = t]
       [] s.phase = "ACCEL" ->
            LET v == clamp(s.speed + ACCEL_RATE, 0, MAX_SPEED)
                p == s.segProgress + v
                ph1 == IF 100 * v >= MAX_SPEED * 92 THEN "CRUISE" ELSE s.phase
                ph2 == IF p >= BRAKE_CUE THEN "BRAKE" ELSE ph1
            IN [s EXCEPT !.speed = v, !.segProgress = p, !.phase = ph2]
       [] s.phase = "CRUISE" ->
            LET v == clamp(s.speed + rand(-200, 200, u.uCruise),
                           0, MAX_SPEED)
                p == s.segProgress + v
            IN [s EXCEPT !.speed = v, !.segProgress = p,
                         !.phase = IF p >= BRAKE_CUE THEN "BRAKE" ELSE s.phase]
       [] s.phase = "BRAKE" ->
            LET v == clamp(s.speed - BRAKE_RATE, 0, MAX_SPEED)
                moved == [s EXCEPT !.speed = v,
                                   !.segProgress = s.segProgress + Max2(v, 0)]
            IN IF v <= 0 THEN arrive(moved, u.uDwell) ELSE moved
       [] OTHER -> s

\* updateTrainSpeed(s) before its last line; u holds its random calls:
\* uAccel (ACCEL_RATE), uBrake (BRAKE_RATE), uCruise, uDwell.
speedPhase(s, u) ==
  LET ACCEL_RATE == rand(600, 900, u.uAccel)
      BRAKE_RATE == rand(900, 1300, u.uBrake)
  IN CASE s.phase = "DWELL" ->
            LET t == s.dwellTimer - 1
            IN IF t <= 0
               THEN [s EXCEPT !.speed = 0, !.dwellTimer = t,
                              !.phase = "ACCEL", !.segProgress = 0]
               ELSE [s EXCEPT !.speed = 0, !.dwellTimer = t]
       [] s.phase = "ACCEL" ->
            LET v == clamp(s.speed + ACCEL_RATE, 0, MAX_SPEED)
                p == s.segProgress + v
                ph1 == IF 100 * v >= MAX_SPEED * 92 THEN "CRUISE" ELSE s.phase
                ph2 == IF p >= BRAKE_CUE THEN "BRAKE" ELSE ph1
            IN [s EXCEPT !.speed = v, !.segProgress = p, !.phase = ph2]
       [] s.phase = "CRUISE" ->
            LET v == clamp(s.speed + rand(-200, 200, u.uCruise),
                           (MAX_SPEED * 88) \div 100, MAX_SPEED)
                p == s.segProgress + v
            IN [s EXCEPT !.speed = v, !.segProgress = p,
                         !.phase = IF p >= BRAKE_CUE THEN "BRAKE" ELSE s.phase]
       [] s.phase = "BRAKE" ->
            LET v == clamp(s.speed - BRAKE_RATE, 0, MAX_SPEED)
                moved == [s EXCEPT !.speed = v,
                                   !.segProgress = s.segProgress + Max2(v, 0)]
            IN IF v <= 0 THEN arrive(moved, u.uDwell) ELSE moved
       [] OTHER -> s

\* updateTrainSpeed(s)
updateTrainSpeed(s, u) ==
  LET t == speedPhase(s, u)
  IN [t EXCEPT !.speed = Round1(t.speed)]
----------------------------------------------------------------------------
\* State mutation

\* evolveComponentState(current); e holds its two random calls: keep (the
\* 95% test) and pick (the weightedPick).
evolveComponentState(current, e) ==
  IF e.keep < 950 THEN current ELSE weightedPick(COMPONENT_STATE, e.pick)

\* alerts.push(alert) under the condition of the enclosing if.
pushIf(alerts, cond, alert) == IF cond THEN Append(alerts, alert) ELSE alerts

\* An alert {code, severity, message}; arg is the value the message template
\* is filled with.
Alert(code, severity, arg) == [code |-> code, severity |-> severity, arg |-> arg]

\* A status change that takes a vehicle leaving service back to the first
\* stop of its line.
updateStatusToDepot(s, u) ==
  IF u.uChange < 30
  THEN LET prev == s.status
           status == weightedPick(STATUS_WEIGHTS, u.uStatus)
           s1 == [s EXCEPT !.status = status]
           s2 == IF status = "IN_SERVICE" /\ prev # "IN_SERVICE"
                 THEN [s1 EXCEPT !.phase = "DWELL",
                                 !.dwellTimer = randInt(8, 20, u.uDwell),
                                 !.segProgress = 0, !.speed = 0]
                 ELSE s1
       IN IF status # "IN_SERVICE"
          THEN [s2 EXCEPT !.speed = 0, !.phase = "DWELL", !.stationIndex = 0,
                          !.currentStation = stations[0]]
          ELSE s2
  ELSE s

\* A status change that leaves the speed of a vehicle taken out of service
\* as it was.
updateStatusCoasts(s, u) ==
  IF u.uChange < 30
  THEN LET prev == s.status
           status == weightedPick(STATUS_WEIGHTS, u.uStatus)
           s1 == [s EXCEPT !.status = status]
       IN IF status = "IN_SERVICE" /\ prev # "IN_SERVICE"
          THEN [s1 EXCEPT !.phase = "DWELL",
                          !.dwellTimer = randInt(8, 20, u.uDwell),
                          !.segProgress = 0, !.speed = 0]
          ELSE s1
  ELSE s

\* updateTrain, "Operational Status": u.uChange is the 3% test, u.uStatus the
\* weightedPick, u.uDwell the randInt(8, 20).
updateStatus(s, u) ==
  IF u.uChange < 30
  THEN LET prev == s.status
           status == weightedPick(STATUS_WEIGHTS, u.uStatus)
           s1 == [s EXCEPT !.status = status]
           s2 == IF status = "IN_SERVICE" /\ prev # "IN_SERVICE"
                 THEN [s1 EXCEPT !.phase = "DWELL",
                                 !.dwellTimer = randInt(8, 20, u.uDwell),
                                 !.segProgress = 0, !.speed = 0]
                 ELSE s1
       IN IF status # "IN_SERVICE"
          THEN [s2 EXCEPT !.speed = 0, !.phase = "DWELL"]
          ELSE s2
  ELSE s

\* A motion step that stops a vehicle out of service but keeps the progress
\* of the segment it was in.
updateMotionKeepsProgress(s, u) ==
  IF s.status = "IN_SERVICE" THEN updateTrainSpeed(s, u)
  ELSE IF s.status = "STANDBY"
  THEN [s EXCEPT !.speed = Round1(clamp(s.speed + rand(-300, 0, u.uStandby),
                                        0, 15 * 100)),
                 !.phase = "DWELL", !.dwellTimer = randInt(8, 20, u.uDwell)]
  ELSE [s EXCEPT !.speed = 0,
                 !.phase = "DWELL", !.dwellTimer = randInt(8, 20, u.uDwell)]

\* A motion step that leaves the dwellTimer of a vehicle in STANDBY as it
\* was.
updateMotionKeepsTimer(s, u) ==
  IF s.status = "IN_SERVICE" THEN updateTrainSpeed(s, u)
  ELSE IF s.status = "STANDBY"
  THEN [s EXCEPT !.speed = Round1(clamp(s.speed + rand(-300, 0, u.uStandby),
                                        0, 15 * 100)),
                 !.phase = "DWELL", !.segProgress = 0]
  ELSE [s EXCEPT !.speed = 0,
                 !.phase = "DWELL", !.dwellTimer = randInt(8, 20, u.uDwell),
                 !.segProgress = 0]

\* updateTrain, "Speed & station progression"
updateMotion(s, u) ==
  IF s.status = "IN_SERVICE" THEN updateTrainSpeed(s, u)
  ELSE IF s.status = "STANDBY"
  THEN [s EXCEPT !.speed = Round1(clamp(s.speed + rand(-300, 0, u.uStandby),
                                        0, 15 * 100)),
                 !.phase = "DWELL", !.dwellTimer = randInt(8, 20, u.uDwell),
                 !.segProgress = 0]
  ELSE [s EXCEPT !.speed = 0,
                 !.phase = "DWELL", !.dwellTimer = randInt(8, 20, u.uDwell),
                 !.segProgress = 0]

\* An odometer that counts the distance with the sign of the direction of
\* travel.
updateOdometerSigned(s) ==
  IF s.speed > 0
  THEN [s EXCEPT !.odometer =
          capped(s.odometer + s.direction * ((s.speed + 600) \div 1200))]
  ELSE s

\* A trip counter: the odometer falls back to its reading at creation
\* whenever the vehicle stands.
updateOdometerTrip(s) ==
  IF s.speed > 0
  THEN [s EXCEPT !.odometer = capped(s.odometer + (s.speed + 600) \div 1200)]
  ELSE [s EXCEPT !.odometer = 100 * 50000]

\* updateTrain, "Odometer": Math.round(speed / 1200 * 100) / 100 km, in
\* hundredths of a km.
updateOdometer(s) ==
  IF s.speed > 0
  THEN [s EXCEPT !.odometer = capped(s.odometer + (s.speed + 600) \div 1200)]
  ELSE s

\* A ceiling of 140 in every traction state.
motorCeilingAlways(tractionState) == 14000

\* The upper bound the motor temperature is clamped to: 140 in FAULT, else
\* 110.
motorCeiling(tractionState) ==
  IF tractionState = "FAULT" THEN 14000 ELSE 11000

\* updateTrain, "Components": the seven subsystems in the order of the code.
\* u.evo[c] are the random calls of evolveComponentState for subsystem c;
\* u.uCar, u.uPress, u.uTemp, u.uMotor, u.uVolt, u.uCams the others.
\* The result is <<components, alerts>>.
updateComponents(c, u) ==
  LET doorsState == evolveComponentState(c.doors.state, u.evo.doors)
      doors == [state |-> doorsState,
                faultCars |-> IF doorsState = "FAULT"
                              THEN <<randInt(1, 6, u.uCar)>> ELSE << >>]
      a1 == pushIf(<< >>, doorsState = "FAULT",
                   Alert("DOOR_FAULT", "HIGH", doors.faultCars))
      brakesState == evolveComponentState(c.brakes.state, u.evo.brakes)
      pressure == Round1(clamp(c.brakes.pressure + rand(-200, 200, u.uPress),
                               IF brakesState = "FAULT" THEN 5500 ELSE 8000,
                               10000))
      a2 == IF brakesState = "FAULT"
            THEN Append(a1, Alert("BRAKE_FAULT", "CRITICAL", 0))
            ELSE pushIf(a1, brakesState = "WARNING",
                        Alert("BRAKE_WARN", "MEDIUM", pressure))
      hvacState == evolveComponentState(c.hvac.state, u.evo.hvac)
      cabinTemp == Round1(clamp(c.hvac.cabinTemp + rand(-50, 50, u.uTemp),
                                IF hvacState = "FAULT" THEN 3000 ELSE 2000,
                                IF hvacState = "FAULT" THEN 3800 ELSE 2700))
      a3 == pushIf(a2, hvacState = "FAULT",
                   Alert("HVAC_FAULT", "MEDIUM", cabinTemp))
      powerState == evolveComponentState(c.powerRail.state, u.evo.powerRail)
      a4 == pushIf(a3, powerState = "FAULT", Alert("POWER_FAULT", "CRITICAL", 0))
      tractionState == evolveComponentState(c.traction.state, u.evo.traction)
      motorTemp == Round0(clamp(c.traction.motorTemp + rand(-200, 300, u.uMotor),
                                4000, motorCeiling(tractionState)))
      a5 == pushIf(a4, motorTemp > 12000,
                   Alert("TRACTION_OVERHEAT", "HIGH", motorTemp))
      batteryState == evolveComponentState(c.battery.state, u.evo.battery)
      voltage == Round1(clamp(c.battery.voltage + rand(-20, 20, u.uVolt),
                              IF batteryState = "FAULT" THEN 6500 ELSE 7200,
                              8000))
      a6 == pushIf(a5, voltage < 7200, Alert("BATTERY_LOW", "MEDIUM", voltage))
      cctvState == evolveComponentState(c.cctv.state, u.evo.cctv)
      activeCams == IF cctvState = "FAULT" THEN randInt(16, 22, u.uCams) ELSE 24
      a7 == pushIf(a6, cctvState = "FAULT",
                   Alert("CCTV_PARTIAL", "LOW", 24 - activeCams))
  IN << [ doors |-> doors,
          brakes |-> [state |-> brakesState, pressure |-> pressure],
          hvac |-> [state |-> hvacState, cabinTemp |-> cabinTemp],
          powerRail |-> [state |-> powerState],
          traction |-> [state |-> tractionState, motorTemp |-> motorTemp],
          battery |-> [state |-> batteryState, voltage |-> voltage],
          cctv |-> [state |-> cctvState, activeCams |-> activeCams] ],
        a7 >>

\* A maintenance alert that is already raised at exactly 40000 km since the
\* last service.
maintenanceAlertAtThreshold(s, alerts) ==
  LET kmSinceMaint == s.odometer - s.lastMaintenanceKm
  IN pushIf(alerts, kmSinceMaint >= 40000 * 100,
            Alert("SCHEDULED_MAINTENANCE", "LOW", Round0(kmSinceMaint)))

\* updateTrain, "Maintenance Alert": more than 40000 km since the last
\* service.
maintenanceAlert(s, alerts) ==
  LET kmSinceMaint == s.odometer - s.lastMaintenanceKm
  IN pushIf(alerts, kmSinceMaint > 40000 * 100,
            Alert("SCHEDULED_MAINTENANCE", "LOW", Round0(kmSinceMaint)))

\* A list that the alerts of the tick are appended to.
appendAlerts(s, alerts) == [s EXCEPT !.alerts = s.alerts \o alerts]

\* updateTrain: s.alerts = alerts, the list built in this tick from [].
storeAlerts(s, alerts) == [s EXCEPT !.alerts = alerts]

\* updateTrain(trainId) on the state s of the train.
updateTrain(s, u) ==
  LET s1 == updateOdometer(updateMotion(updateStatus(s, u), u))
      ca == updateComponents(s1.components, u)
      s2 == [s1 EXCEPT !.components = ca[1]]
  IN storeAlerts(s2, maintenanceAlert(s2, ca[2]))

----------------------------------------------------------------------------
\* The standalone simulator (simulate.js, phase-based): the same vehicle
\* with a 2 s tick.  Its state is written with the field names of
\* trainSimulator.js (stationIndex for stIdx, direction for dir, odometer for
\* odo, lastMaintenanceKm for lastMaintKm, components for c); it has no
\* currentStation.  segProgress is in units of 1/180000 of a segment, the
\* share a speed of 0.01 km/h adds in one tick (speed / 1800).

STATUS_W ==
  << <<"IN_SERVICE", 720>>, <<"STANDBY", 100>>, <<"IN_DEPOT", 100>>,
     <<"MAINTENANCE", 50>>, <<"FAULT", 30>> >>

\* segProgress 0.68 and 1.0 in units of 1/180000
SIM_BRAKE_CUE == 68 * 1800
SIM_SEGMENT == 100 * 1800

\* initState(id, line); u holds the values of its random calls.
initState(u) ==
  LET status == weightedPick(STATUS_W, u.uStatus)
      phase == IF status = "IN_SERVICE"
               THEN PHASES[randInt(0, 3, u.uPhase) + 1] ELSE "DWELL"
  IN [ status |-> status,
       speed |-> IF phase = "CRUISE" THEN 100 * randInt(60, 80, u.uSpeed)
                 ELSE IF phase = "ACCEL" THEN 100 * randInt(10, 50, u.uSpeed)
                 ELSE IF phase = "BRAKE" THEN 100 * randInt(5, 40, u.uSpeed)
                 ELSE 0,
       stationIndex |-> randInt(0, NumStations - 1, u.uIdx),
       direction |-> IF u.uDir > 500 THEN 1 ELSE -1,
       phase |-> phase,
       dwellTimer |-> randInt(8, 20, u.uDwell),
       segProgress |-> IF phase = "DWELL" THEN 0
                       ELSE rand(5 * 1800,
                                 IF phase = "BRAKE" THEN 95 * 1800 ELSE 60 * 1800,
                                 u.uProg),
       odometer |-> capped(100 * randInt(50000, 500000, u.uOdo)),
       lastMaintenanceKm |-> 100 * randInt(0, 49999, u.uMaint),
       components |->
         [ doors |-> [state |-> "NORMAL", faultCars |-> << >>],
           brakes |-> [state |-> "NORMAL", pressure |-> 100 * 100],
           hvac |-> [state |-> "NORMAL", cabinTemp |-> 24 * 100],
           powerRail |-> [state |-> "NORMAL"],
           traction |-> [state |-> "NORMAL", motorTemp |-> 50 * 100],
           battery |-> [state |-> "NORMAL", voltage |-> 7750],
           cctv |-> [state |-> "NORMAL", activeCams |-> 24] ],
       alerts |-> << >> ]

\* A status change that does not restart a vehicle entering service: it
\* keeps the phase, dwellTimer and segProgress it had when it left.
tickStatusNoRestart(s, u) ==
  IF u.uChange < 30
  THEN LET status == weightedPick(STATUS_W, u.uStatus)
           s1 == [s EXCEPT !.status = status]
       IN IF status # "IN_SERVICE"
          THEN [s1 EXCEPT !.speed = 0, !.phase = "DWELL"]
          ELSE s1
  ELSE s

\* tick, "Operational status change": u.uChange is the 3% test, u.uStatus
\* the wPick, u.uDwell the randInt(10, 20).
tickStatus(s, u) ==
  IF u.uChange < 30
  THEN LET prev == s.status
           status == weightedPick(STATUS_W, u.uStatus)
           s1 == [s EXCEPT !.status = status]
           s2 == IF status = "IN_SERVICE" /\ prev # "IN_SERVICE"
                 THEN [s1 EXCEPT !.phase = "DWELL",
                                 !.dwellTimer = randInt(10, 20, u.uDwell),
                                 !.segProgress = 0, !.speed = 0]
                 ELSE s1
       IN IF status # "IN_SERVICE"
          THEN [s2 EXCEPT !.speed = 0, !.phase = "DWELL"]
          ELSE s2
  ELSE s

\* tick, the IN_SERVICE branch of "Speed / phase": the trapezoidal profile.
tickSpeed(s, u) ==
  LET ACCEL_RATE == rand(400, 600, u.uAccel)
      BRAKE_RATE == rand(600, 900, u.uBrake)
  IN CASE s.phase = "DWELL" ->
            LET t == s.dwellTimer - 1
            IN IF t <= 0
               THEN [s EXCEPT !.speed = 0, !.dwellTimer = t,
                              !.phase = "ACCEL", !.segProgress = 0]
               ELSE [s EXCEPT !.speed = 0, !.dwellTimer = t]
       [] s.phase = "ACCEL" ->
            LET v == clamp(s.speed + ACCEL_RATE, 0, MAX_SPEED)
                p == s.segProgress + v
                ph1 == IF 100 * v >= MAX_SPEED * 92 THEN "CRUISE" ELSE s.phase
                ph2 == IF p >= SIM_BRAKE_CUE THEN "BRAKE" ELSE ph1
            IN [s EXCEPT !.speed = v, !.segProgress = p, !.phase = ph2]
       [] s.phase = "CRUISE" ->
            LET v == clamp(s.speed + rand(-200, 200, u.uCruise),
                           (MAX_SPEED * 88) \div 100, MAX_SPEED)
                p == s.segProgress + v
            IN [s EXCEPT !.speed = v, !.segProgress = p,
                         !.phase = IF p >= SIM_BRAKE_CUE THEN "BRAKE" ELSE s.phase]
       [] s.phase = "BRAKE" ->
            LET v == clamp(s.speed - BRAKE_RATE, 0, MAX_SPEED)
                next == s.stationIndex + s.direction
                idx == IF next >= NumStations THEN NumStations - 2
                       ELSE IF next < 0 THEN 1 ELSE next
                dir == IF next >= NumStations THEN -1
                       ELSE IF next < 0 THEN 1 ELSE s.direction
            IN IF v <= 0
               THEN [s EXCEPT !.speed = v, !.stationIndex = idx,
                              !.direction = dir, !.phase = "DWELL",
                              !.dwellTimer = randInt(8, 20, u.uDwell),
                              !.segProgress = 0]
               ELSE [s EXCEPT !.speed = v,
                              !.segProgress = s.segProgress + Max2(v, 0)]

\* tick, "Speed / phase": outside service only the speed is set; the phase,
\* dwellTimer and segProgress stay as they are.
tickMotion(s, u) ==
  LET t == IF s.status = "IN_SERVICE" THEN tickSpeed(s, u)
           ELSE IF s.status = "STANDBY"
           THEN [s EXCEPT !.speed = clamp(s.speed + rand(-300, 0, u.uStandby),
                                          0, 15 * 100)]
           ELSE [s EXCEPT !.speed = 0]
  IN [t EXCEPT !.speed = Round1(t.speed)]

\* tick, the odometer: Math.round(speed / 1800 * 100) / 100 km.
tickOdometer(s) ==
  IF s.speed > 0
  THEN [s EXCEPT !.odometer = capped(s.odometer + (s.speed + 900) \div 1800)]
  ELSE s

\* tick(id) on the state s of the train; the subsystems and the maintenance
\* alert are computed as in updateTrain.
tick(s, u) ==
  LET s1 == tickOdometer(tickMotion(tickStatus(s, u), u))
      ca == updateComponents(s1.components, u)
      s2 == [s1 EXCEPT !.components = ca[1]]
  IN storeAlerts(s2, maintenanceAlert(s2, ca[2]))

----------------------------------------------------------------------------
\* Point machine simulator.  motorCurrent is in hundredths of an ampere,
\* voltage in hundredths of a volt, strokeTime in hundredths of a
\* millisecond.

\* Number of point machines of the roster of each depot (8, 5 and 6 in
\* DEPOT_POINT_MACHINES; the model runs shorter rosters).
RosterLen == 2

\* How far past 200 operations opCount is followed.
MaxOps == 2

\* How far past the total of the weights the draw of weightedPick is
\* followed, in thousandths: the remainder that floating-point drift leaves.
MaxDrift == 1

PM_STATE == << <<"NORMAL", 900>>, <<"WARNING", 70>>, <<"FAULT", 30>> >>

\* The depots with a roster and the local ids of their point machines.
Depots == {"MOC", "KHU"}

DEPOT_POINT_MACHINES ==
  [ d \in Depots |->
      SubSeq(IF d = "MOC"
             THEN <<"A1", "A2", "A3", "B1", "B2", "C1", "C2", "D1">>
             ELSE <<"A1", "A2", "B1", "B2", "C1">>,
             1, Min2(RosterLen, IF d = "MOC" THEN 8 ELSE 5)) ]

\* DEPOT_POINT_MACHINES[depotId] || []
roster(depotId) ==
  IF depotId \in Depots THEN DEPOT_POINT_MACHINES[depotId] ELSE << >>

\* A key that leaves the depot out: the devices of every depot with the
\* same local id share one state.
PmIdShared(depotId, localId) == <<"MOC", "PM", localId>>

\* pmId = `${depotId}-PM-${localId}`
PmId(depotId, localId) == <<depotId, "PM", localId>>

PmIds ==
  UNION { {PmId(d, DEPOT_POINT_MACHINES[d][i]) :
             i \in 1..Len(DEPOT_POINT_MACHINES[d])} : d \in Depots }

\* pmStates[pmId] of a device not seen yet (undefined).
NoPM == [state |-> "NONE"]

\* alert: null
NoAlert == [code |-> "null"]

OpCountCap == 200 + MaxOps
opCapped(n) == Min2(n, OpCountCap)

\* initPMState(pmId); u holds the values of its random calls.
initPMState(u) ==
  [ state |-> "NORMAL",
    motorCurrent |-> rand(200, 280, u.iCur),
    voltage |-> 100 * randInt(109, 113, u.iVolt),
    strokeTime |-> 100 * randInt(3100, 3400, u.iStroke),
    position |-> IF u.iPos > 500 THEN "NORMAL" ELSE "REVERSE",
    opCount |-> opCapped(randInt(0, 200, u.iOps)) ]

\* A position that a faulted machine keeps where it was.
pmPositionStuck(state, old, uPos) ==
  IF state = "FAULT" THEN old
  ELSE IF uPos > 500 THEN "NORMAL" ELSE "REVERSE"

\* A position that is drawn anew only while the machine is NORMAL.
pmPositionSticky(state, old, uPos) ==
  IF state = "FAULT" THEN "INTERMEDIATE"
  ELSE IF state = "WARNING" THEN old
  ELSE IF uPos > 500 THEN "NORMAL" ELSE "REVERSE"

\* getPointMachineTelemetry: the position after the sweep, old being the
\* one before.
pmPosition(state, old, uPos) ==
  IF state = "FAULT" THEN "INTERMEDIATE"
  ELSE IF uPos > 500 THEN "NORMAL" ELSE "REVERSE"

\* An evolution that drifts and clamps the measurements by the state the
\* device had before the sweep.
evolvePMStale(p, u) ==
  LET state == IF u.uChange >= 950 THEN weightedPick(PM_STATE, u.uPick)
               ELSE p.state
      opCount == opCapped(p.opCount + randInt(0, 2, u.uOps))
      motorCurrent ==
        IF p.state = "FAULT"
        THEN clamp(p.motorCurrent + rand(50, 200, u.uCur), 600, 1200)
        ELSE IF p.state = "WARNING"
        THEN clamp(p.motorCurrent + rand(10, 50, u.uCur), 200, 600)
        ELSE clamp(p.motorCurrent + rand(-20, 20, u.uCur), 180, 300)
      voltage ==
        IF p.state = "FAULT"
        THEN clamp(p.voltage + rand(-800, -200, u.uVolt), 8500, 11000)
        ELSE IF p.state = "WARNING"
        THEN clamp(p.voltage + rand(-300, 100, u.uVolt), 10000, 11500)
        ELSE clamp(p.voltage + rand(-100, 100, u.uVolt), 10800, 11500)
      strokeTime ==
        IF p.state = "FAULT"
        THEN clamp(p.strokeTime + rand(50000, 200000, u.uStroke), 300000, 1200000)
        ELSE IF p.state = "WARNING"
        THEN clamp(p.strokeTime + rand(20000, 80000, u.uStroke), 300000, 650000)
        ELSE clamp(p.strokeTime + rand(-10000, 10000, u.uStroke), 300000, 350000)
  IN [ state |-> state,
       motorCurrent |-> Round1(motorCurrent),
       voltage |-> Round0(voltage),
       strokeTime |-> Round0(strokeTime),
       position |-> pmPosition(state, p.position, u.uPos),
       opCount |-> opCount ]

\* getPointMachineTelemetry, "Evolve state" up to the roundings, on the
\* state p of one device; u holds the values of the random calls.
evolvePM(p, u) ==
  LET state == IF u.uChange >= 950 THEN weightedPick(PM_STATE, u.uPick)
               ELSE p.state
      opCount == opCapped(p.opCount + randInt(0, 2, u.uOps))
      motorCurrent ==
        IF state = "FAULT"
        THEN clamp(p.motorCurrent + rand(50, 200, u.uCur), 600, 1200)
        ELSE IF state = "WARNING"
        THEN clamp(p.motorCurrent + rand(10, 50, u.uCur), 200, 600)
        ELSE clamp(p.motorCurrent + rand(-20, 20, u.uCur), 180, 300)
      voltage ==
        IF state = "FAULT"
        THEN clamp(p.voltage + rand(-800, -200, u.uVolt), 8500, 11000)
        ELSE IF state = "WARNING"
        THEN clamp(p.voltage + rand(-300, 100, u.uVolt), 10000, 11500)
        ELSE clamp(p.voltage + rand(-100, 100, u.uVolt), 10800, 11500)
      strokeTime ==
        IF state = "FAULT"
        THEN clamp(p.strokeTime + rand(50000, 200000, u.uStroke), 300000, 1200000)
        ELSE IF state = "WARNING"
        THEN clamp(p.strokeTime + rand(20000, 80000, u.uStroke), 300000, 650000)
        ELSE clamp(p.strokeTime + rand(-10000, 10000, u.uStroke), 300000, 350000)
  IN [ state |-> state,
       motorCurrent |-> Round1(motorCurrent),
       voltage |-> Round0(voltage),
       strokeTime |-> Round0(strokeTime),
       position |-> pmPosition(state, p.position, u.uPos),
       opCount |-> opCount ]

\* An alert that is raised for a faulted machine only.
pmAlertFaultOnly(localId, p) ==
  IF p.state = "FAULT"
  THEN [code |-> "POINT_FAULT", severity |-> "CRITICAL",
        message |-> <<localId, "stuck throw", p.strokeTime, p.motorCurrent>>]
  ELSE NoAlert

\* getPointMachineTelemetry: the alert of the event, from alertCode.
pmAlert(localId, p) ==
  LET alertCode == IF p.state = "FAULT" THEN "POINT_FAULT"
                   ELSE IF p.state = "WARNING" THEN "POINT_SLOW"
                   ELSE "null"
  IN IF alertCode # "null"
     THEN [ code |-> alertCode,
            severity |-> IF alertCode = "POINT_FAULT" THEN "CRITICAL" ELSE "HIGH",
            message |-> IF alertCode = "POINT_FAULT"
                        THEN <<localId, "stuck throw", p.strokeTime, p.motorCurrent>>
                        ELSE <<localId, "slow operation", p.strokeTime>> ]
     ELSE NoAlert

\* getPointMachineTelemetry: the event of one device (timestamp left out).
pmEvent(depotId, localId, p) ==
  [ pmId |-> PmId(depotId, localId),
    localId |-> localId,
    depotId |-> depotId,
    state |-> p.state,
    motorCurrent |-> p.motorCurrent,
    voltage |-> p.voltage,
    strokeTime |-> p.strokeTime,
    position |-> p.position,
    opCount |-> p.opCount,
    alert |-> pmAlert(localId, p) ]

\* getPointMachineTelemetry: if (!pmStates[pmId]) initPMState(pmId); p is
\* pmStates[pmId], the result the state the evolution works on.
ensurePM(p, u) == IF p = NoPM THEN initPMState(u) ELSE p

\* getPointMachineTelemetry(depotId) on the device states pm: the states
\* after the sweep and the events it returns.  u[i] holds the values of the
\* random calls made for the i-th device of the roster, initPMState's
\* included (made only for a device not seen before).
sweep(pm, depotId, u) ==
  LET ids == roster(depotId)
      after(i) ==
        LET pmId == PmId(depotId, ids[i])
        IN evolvePM(ensurePM(pm[pmId], u[i]), u[i])
  IN [ states |->
         [ k \in DOMAIN pm |->
             IF \E i \in 1..Len(ids) : k = PmId(depotId, ids[i])
             THEN after(CHOOSE i \in 1..Len(ids) : k = PmId(depotId, ids[i]))
             ELSE pm[k] ],
       events |-> [i \in 1..Len(ids) |-> pmEvent(depotId, ids[i], after(i))] ]

----------------------------------------------------------------------------
\* Public API

\* Number of vehicles of the depot's fleet (52, 22 or 24 in trainData.js; the
\* model runs a shorter roster).
FleetSize == 2

\* buildFleetForDepot(DEPOT_ID): the roster, here the trains' numbers.
fleetEntries == [i \in 1..FleetSize |-> i]

TrainIds == {fleetEntries[i] : i \in 1..FleetSize}

\* trainStates[trainId] of an identifier not seen yet (undefined).
NoState == [status |-> "NONE"]

\* The value of event before any telemetry was built.
NoEvent == [trainId |-> 0]

VARIABLES
  trainStates,  \* trainSimulator.js: trainStates, trainId -> vehicle state
  event,        \* the payload the last getTelemetry call returned
  last,         \* history: the call that built event (the train, whether its
                \* state was created by the call, its state before updateTrain)
  conn,         \* index.js: the MQTT client: connecting, connected or offline
  connects,     \* history: number of "connect" events so far
  loops,        \* index.js: number of setInterval timers running
  registrations,\* history: number of depot registrations published
  trainIndex,   \* index.js: trainIndex; simulate.js: counters[d.id]
  tickCount,    \* index.js: tickCount; simulate.js: pmTick
  states,       \* simulate.js: states, trainId -> vehicle state
  program,      \* which of the two programs the process runs
  pmStates,     \* pmStates, pmId -> point machine state
  pmEvents,     \* the events the point machine sweeps of the last call or
                \* timer callback returned, in order
  pmLast,       \* history: the depot of the last sweep and, of each device,
                \* the state, position and opCount before it
  pending,      \* index.js: train publishes whose callback has not run yet
  logged,       \* index.js: what the last publish callback did, and the
                \* tickCount at which it ran
  picked,       \* a call of weightedPick: the mapping, the draw, the result
  trains,       \* store.js: trains, trainId -> latest telemetry payload
  depots,       \* store.js: depots, depotId -> depot registration
  alertLog,     \* store.js: alertLog, newest entry first
  emitted,      \* the events the last run of the backend's message handler
                \* passed to io.emit, in order
  handler,      \* how the last run of the message handler ended
  reply,        \* the response of the last REST request
  received      \* history: the payloads handed to upsertTrain, in order

engineVars == <<trainStates, event, last>>
agentVars == <<conn, connects, loops, registrations, trainIndex, tickCount,
              pending, logged>>
simVars == <<states, program>>
pmVars == <<pmStates, pmEvents, pmLast>>
pickVars == <<picked>>
storeVars == <<trains, depots, alertLog>>
backendVars == <<trains, depots, alertLog, emitted, handler, reply, received>>
vars == <<trainStates, event, last, conn, connects, loops, registrations,
          trainIndex, tickCount, states, program, pmStates, pmEvents, pmLast,
          pending, logged, picked, trains, depots, alertLog, emitted, handler,
          reply, received>>

\* A registration that is sent at the first connection only.
publishOnce(published) == IF published = 0 THEN 1 ELSE published

\* client.publish(TOPIC_REGISTER, ..., {retain: true}) in the "connect"
\* handler: one more registration message of the depot is sent.
publishRegistration(published) == published + 1

\* startPublishing(): one more setInterval timer runs; none is ever cleared.
startPublishing(running) == running + 1

\* Number of components of the state in c that are in state st.
countState(c, st) ==
  Cardinality({k \in DOMAIN c : c[k].state = st})

\* A health score without its floor at 0.
healthScoreNoFloor(c) ==
  100 - countState(c, "FAULT") * 20 - countState(c, "WARNING") * 5

\* getTelemetry: the health score, 0..100.
healthScore(c) ==
  Max2(0, 100 - countState(c, "FAULT") * 20 - countState(c, "WARNING") * 5)

\* getTelemetry: the payload built from the updated state s (timestamp and
\* the roster's fixed fields left out).
payload(trainId, s) ==
  [ trainId |-> trainId,
    status |-> s.status,
    speed |-> s.speed,
    phase |-> s.phase,
    currentStation |-> s.currentStation,
    nextStation |->
      IF s.phase # "DWELL"
      THEN stations[Max2(0, Min2(NumStations - 1, s.stationIndex + s.direction))]
      ELSE <<"null">>,
    odometer |-> Round0(s.odometer),
    healthScore |-> healthScore(s.components),
    components |-> s.components,
    alerts |-> s.alerts ]

\* What last keeps of the state s0 that updateTrain started from.
before(s0) ==
  [ status |-> s0.status, phase |-> s0.phase, moving |-> s0.speed > 0,
    stationIndex |-> s0.stationIndex, direction |-> s0.direction,
    alerted |-> s0.alerts # << >>,
    speed |-> s0.speed, odometer |-> s0.odometer,
    dwellTimer |-> s0.dwellTimer ]

\* The value of last.rates while the vehicle stands.
NoRates == [uAccel |-> 0, uBrake |-> 0, uCruise |-> 0, uStandby |-> 0]

\* The ticks a vehicle in service has ended in DWELL since it arrived, the
\* arrival tick included, after a tick from s0 to s; dwelt counts those up
\* to s0.  The tick that leaves for ACCEL keeps the count; 0 when the vehicle
\* was not followed from an arrival.
dwellTicks(s0, s, dwelt) ==
  IF s0.status = "IN_SERVICE" /\ s.status = "IN_SERVICE"
  THEN IF s0.phase = "BRAKE" /\ s.phase = "DWELL" THEN 1
       ELSE IF s0.phase = "DWELL" /\ s.phase = "DWELL" /\ dwelt > 0 THEN dwelt + 1
       ELSE IF s0.phase = "DWELL" /\ s.phase = "ACCEL" THEN dwelt
       ELSE 0
  ELSE 0

\* A state that is created anew at every call.
alwaysInit(cur, ui) == initTrainState(ui)

\* getTelemetry: if (!trainStates[trainId]) initTrainState(trainId, line);
\* cur is trainStates[trainId], the result the state updateTrain works on.
ensureState(cur, ui) == IF cur = NoState THEN initTrainState(ui) ELSE cur

\* getTelemetry(trainId, ...): ui are the random calls of initTrainState (made
\* on the first call for trainId only), u those of updateTrain.
getTelemetry(trainId, ui, u) ==
  LET fresh == trainStates[trainId] = NoState
      s0 == ensureState(trainStates[trainId], ui)
      s == updateTrain(s0, u)
  IN /\ trainStates' = [trainStates EXCEPT ![trainId] = s]
     /\ event' = payload(trainId, s)
     /\ last' = [trainId |-> trainId, fresh |-> fresh, prev |-> before(s0),
                 rates |-> IF s.phase = "DWELL" THEN NoRates
                           ELSE [uAccel |-> u.uAccel, uBrake |-> u.uBrake,
                                 uCruise |-> u.uCruise, uStandby |-> u.uStandby],
                 drift |-> u.uPress,
                 dwelt |-> dwellTicks(s0, s, IF fresh \/ last.trainId # trainId
                                             THEN 0 ELSE last.dwelt)]

\* tick: the payload built from the updated state s (timestamp left out).
tickPayload(trainId, s) ==
  [ trainId |-> trainId,
    status |-> s.status,
    speed |-> s.speed,
    phase |-> s.phase,
    currentStation |-> stations[s.stationIndex],
    nextStation |->
      IF s.phase # "DWELL"
      THEN stations[Max2(0, Min2(NumStations - 1, s.stationIndex + s.direction))]
      ELSE <<"null">>,
    odometer |-> Round0(s.odometer),
    healthScore |-> healthScore(s.components),
    components |-> s.components,
    alerts |-> s.alerts ]

\* simulate.js, the body of the loop over the depots in the timer callback:
\* tick(meta.trainId) and the payload that is published.
simTelemetry(trainId, u) ==
  LET s0 == states[trainId]
      s == tick(s0, u)
  IN /\ states' = [states EXCEPT ![trainId] = s]
     /\ event' = tickPayload(trainId, s)
     /\ last' = [trainId |-> trainId, fresh |-> FALSE, prev |-> before(s0),
                 rates |-> IF s.phase = "DWELL" THEN NoRates
                           ELSE [uAccel |-> u.uAccel, uBrake |-> u.uBrake,
                                 uCruise |-> u.uCruise, uStandby |-> u.uStandby],
                 drift |-> u.uPress,
                 dwelt |-> dwellTicks(s0, s, IF last.trainId # trainId
                                             THEN 0 ELSE last.dwelt)]

\* The value of pmLast before any sweep.
NoSweep == [depotId |-> "none"]

\* What pmLast keeps of the state of a device before a sweep.
pmBefore(p) ==
  IF p = NoPM THEN NoPM
  ELSE [state |-> p.state, position |-> p.position, opCount |-> p.opCount]

\* getPointMachineTelemetry(depotId): the sweep of the roster of a depot.
getPointMachineTelemetry(depotId, u) ==
  LET r == sweep(pmStates, depotId, u)
  IN /\ pmStates' = r.states
     /\ pmEvents' = r.events
     /\ pmLast' = [depotId |-> depotId,
                   prev |-> [k \in PmIds |-> pmBefore(pmStates[k])]]

\* No publish callback has run; weightedPick has not been called.
NoLog == [did |-> "none"]
NoPick == [key |-> "none"]

\* null, what a JavaScript lookup gives in place of an absent value.
Null == [null |-> TRUE]

\* The train identifiers of the payloads the backend is followed through.
StoreTrains == {"MOC-T01", "MOC-T02"}

\* No message handled by the last operation.
Idle == [ended |-> "idle"]

\* No REST request answered yet.
NoReply == [route |-> "none"]

\* store.js and mqttClient.js after the modules are loaded: empty maps, an
\* empty alert log, no message handled.
BackendInit ==
  /\ trains = [id \in StoreTrains |-> Null]
  /\ depots = [d \in Depots |-> Null]
  /\ alertLog = << >>
  /\ emitted = << >>
  /\ handler = Idle
  /\ reply = NoReply
  /\ received = << >>

\* The state after the modules are loaded: no train seen, mqtt.connect called.
Init ==
  /\ trainStates = [id \in TrainIds |-> NoState]
  /\ event = NoEvent
  /\ last = [trainId |-> 0]
  /\ conn = "connecting"
  /\ connects = 0
  /\ loops = 0
  /\ registrations = 0
  /\ trainIndex = 0
  /\ tickCount = 0
  /\ states = [id \in TrainIds |-> NoState]
  /\ program = "depot-agent"
  /\ pmStates = [k \in PmIds |-> NoPM]
  /\ pmEvents = << >>
  /\ pmLast = NoSweep
  /\ pending = 0
  /\ logged = NoLog
  /\ picked = NoPick
  /\ BackendInit

----------------------------------------------------------------------------
\* Inputs: the values the random calls are followed through.

Components == {"doors", "brakes", "hvac", "powerRail", "traction", "battery", "cctv"}

\* evolveComponentState keeps the state.
Keep == [keep |-> 0, pick |-> 0]

\* evolveComponentState resamples to NORMAL, WARNING, FAULT.
Resample == {[keep |-> 999, pick |-> p] : p \in {0, 900, 999}}

\* No subsystem resamples.
EvoKeep == [c \in Components |-> Keep]

\* At most one subsystem resamples in a tick.
EvoOne ==
  {EvoKeep} \cup
  {[EvoKeep EXCEPT ![c] = e] : c \in Components, e \in Resample}

\* The status test fails (no resample), or passes with one draw inside the
\* band of each status.
StatusDraws ==
  {[uChange |-> 999, uStatus |-> 0]} \cup
  {[uChange |-> 0, uStatus |-> r] : r \in {0, 600, 800, 950, 999}}

\* The record of updateTrain's random calls: st the status draws, r the
\* draws of the rates, m those of the measurements.
Draws(st, uDwell, r, evo, m) ==
  [ uChange |-> st.uChange, uStatus |-> st.uStatus, uDwell |-> uDwell,
    uAccel |-> r.uAccel, uBrake |-> r.uBrake, uCruise |-> r.uCruise,
    uStandby |-> r.uStandby,
    evo |-> evo, uCar |-> m.uCar, uPress |-> m.uPress, uTemp |-> m.uTemp,
    uMotor |-> m.uMotor, uVolt |-> m.uVolt, uCams |-> m.uCams ]

\* The ends of the ranges of ACCEL_RATE and of the CRUISE delta; ACCEL_RATE
\* 6.35, which takes a speed of 67.2 to 73.55; BRAKE_RATE 9.00 and 12.96,
\* which takes a speed of 13.0 to 0.04.
RateDraws ==
  [uAccel : {0, 117, 999}, uBrake : {0, 990}, uCruise : {0, 999}, uStandby : {0}]

\* The rate draws a tick may take after the call recorded in last: the ones
\* of the previous tick while the vehicle moves, so that a run between two
\* stops is followed at one end of each range; any in the tick that may end
\* a DWELL; while the dwell lasts the tick reads none of them.
RatesAfter(s) ==
  IF s.phase # "DWELL" THEN {last.rates}
  ELSE IF s.dwellTimer <= 1 THEN RateDraws ELSE {NoRates}

\* The draws at which no measurement drifts: rand(-2, 2), rand(-0.5, 0.5),
\* rand(-2, 3) and rand(-0.2, 0.2) give 0.
Still ==
  [ uCar |-> 0, uPress |-> 500, uTemp |-> 500, uMotor |-> 400, uVolt |-> 500,
    uCams |-> 0 ]

\* The random calls of initTrainState: every stop and both directions, with
\* each status out of service (the phase is DWELL), in service in DWELL, and
\* in service in each moving phase at the low end and near the high end of
\* the speed range (CRUISE 60 and 79, ACCEL 10 and 48, BRAKE 5 and 39) and at
\* the ends of the progress range.  The odometer starts at or past
\* OdometerCap.
InitDraws ==
  [ uIdx : {0, 400, 999}, uStatus : {600, 800, 950, 999}, uPhase : {0},
    uSpeed : {0}, uDir : {0, 999}, uOdo : {999}, uMaint : {0},
    uDwell : {0, 999}, uProg : {0} ]
  \cup
  [ uIdx : {0, 400, 999}, uStatus : {0}, uPhase : {0},
    uSpeed : {0}, uDir : {0, 999}, uOdo : {999}, uMaint : {0},
    uDwell : {0, 999}, uProg : {0} ]
  \cup
  [ uIdx : {0, 400, 999}, uStatus : {0}, uPhase : {250, 500, 750},
    uSpeed : {0, 945}, uDir : {0, 999}, uOdo : {999}, uMaint : {0},
    uDwell : {0}, uProg : {0, 999} ]

\* The train the engine specifications advance.
Train == fleetEntries[1]

\* The draws of a call that does not create the state (initTrainState is not
\* called).
NoInit ==
  [ uIdx |-> 0, uStatus |-> 0, uPhase |-> 0, uSpeed |-> 0, uDir |-> 0,
    uOdo |-> 0, uMaint |-> 0, uDwell |-> 0, uProg |-> 0 ]

\* The first tick of the vehicle: lazy initialization, then one update.  The
\* subsystems keep their state.
FirstTick ==
  /\ program = "depot-agent"
  /\ trainStates[Train] = NoState
  /\ \E ui \in InitDraws, st \in StatusDraws, uDwell \in {0, 999}, r \in RateDraws :
       getTelemetry(Train, ui, Draws(st, uDwell, r, EvoKeep, Still))
  /\ UNCHANGED <<agentVars, simVars, pmVars, pickVars, backendVars>>

\* A later tick of the vehicle: every status change, the ends of the rate and
\* dwell ranges; the subsystems keep their state.
Tick ==
  /\ program = "depot-agent"
  /\ trainStates[Train] # NoState
  /\ \E st \in StatusDraws, uDwell \in {0, 999}, r \in RatesAfter(trainStates[Train]) :
       getTelemetry(Train, NoInit, Draws(st, uDwell, r, EvoKeep, Still))
  /\ UNCHANGED <<agentVars, simVars, pmVars, pickVars, backendVars>>

Next == FirstTick \/ Tick

\* The engine, called for one vehicle: its motion.
Spec == Init /\ [][Next]_vars

----------------------------------------------------------------------------
\* The standalone simulator, advancing one vehicle.

\* The random calls of initState the standalone fleet starts from: in service
\* in DWELL, in service in CRUISE at 79 km/h, and STANDBY, all at the last
\* stop heading outward.
SimInitDraws ==
  { [ uIdx |-> 999, uStatus |-> st, uPhase |-> ph, uSpeed |-> 945,
      uDir |-> 999, uOdo |-> 999, uMaint |-> 0, uDwell |-> 0, uProg |-> 0 ] :
    st \in {0, 800}, ph \in {0, 500} }

\* simulate.js after its module body has run: initState was called for every
\* train of every fleet, mqtt.connect called.
SimInit ==
  /\ program = "simulate"
  /\ \E ui \in SimInitDraws : states = [id \in TrainIds |-> initState(ui)]
  /\ trainStates = [id \in TrainIds |-> NoState]
  /\ event = NoEvent
  /\ last = [trainId |-> 0]
  /\ conn = "connecting"
  /\ connects = 0
  /\ loops = 0
  /\ registrations = 0
  /\ trainIndex = 0
  /\ tickCount = 0
  /\ pmStates = [k \in PmIds |-> NoPM]
  /\ pmEvents = << >>
  /\ pmLast = NoSweep
  /\ pending = 0
  /\ logged = NoLog
  /\ picked = NoPick
  /\ BackendInit

AnyInit == Init \/ SimInit

\* The status test of the standalone tick fails, or passes with a draw
\* inside the band of IN_SERVICE, STANDBY and IN_DEPOT of STATUS_W: one status
\* for each branch of the tick.
SimStatusDraws ==
  {[uChange |-> 999, uStatus |-> 0]} \cup
  {[uChange |-> 0, uStatus |-> r] : r \in {0, 800, 850}}

\* The ends of the range of BRAKE_RATE; the high end of ACCEL_RATE and of the
\* CRUISE delta.
SimRateDraws ==
  [uAccel : {999}, uBrake : {0, 999}, uCruise : {999}, uStandby : {0}]

\* As RatesAfter, for the standalone tick, whose vehicle may be moving
\* before its first tick.
SimRatesAfter(s) ==
  IF s.phase # "DWELL"
  THEN IF last.trainId # 0 THEN {last.rates} ELSE SimRateDraws
  ELSE IF s.status = "IN_SERVICE" /\ s.dwellTimer <= 1 THEN SimRateDraws
  ELSE {NoRates}

\* A tick of the standalone vehicle: every status change; the subsystems
\* keep their state.
SimTick ==
  /\ program = "simulate"
  /\ \E st \in SimStatusDraws, uDwell \in {0, 999}, r \in SimRatesAfter(states[Train]) :
       simTelemetry(Train, Draws(st, uDwell, r, EvoKeep, Still))
  /\ UNCHANGED <<agentVars, trainStates, program, pmVars, pickVars, backendVars>>

ServiceNext == FirstTick \/ Tick \/ SimTick

\* The motion of one vehicle in either program.
SpecService == AnyInit /\ [][ServiceNext]_vars

----------------------------------------------------------------------------
\* The engine, called for one vehicle that stays out of service: its
\* subsystems.

\* The vehicle is created IN_DEPOT at the first stop, with its last service
\* less than 40000 km back.
ParkedInit ==
  [ uIdx |-> 0, uStatus |-> 800, uPhase |-> 0, uSpeed |-> 0, uDir |-> 999,
    uOdo |-> 999, uMaint |-> 999, uDwell |-> 0, uProg |-> 0 ]

\* The status test fails.
NoChange == [uChange |-> 999, uStatus |-> 0]

\* A tick in which at most one subsystem resamples its state and no
\* measurement drifts.
HealthTick ==
  \E evo \in EvoOne :
    /\ getTelemetry(Train, ParkedInit, Draws(NoChange, 0, NoRates, evo, Still))
    /\ UNCHANGED <<agentVars, simVars, pmVars, pickVars, backendVars>>

SpecHealth == Init /\ [][HealthTick]_vars

\* The draws of the traction motor temperature: rand(-2, 3) gives -2, 0 and
\* just under 3.
MotorDraws == {[Still EXCEPT !.uMotor = u] : u \in {0, 400, 999}}

\* Only the traction subsystem resamples its state.
EvoTraction == {EvoKeep} \cup {[EvoKeep EXCEPT !.traction = e] : e \in Resample}

\* A tick in which the traction subsystem evolves and its motor temperature
\* drifts.
TractionTick ==
  \E evo \in EvoTraction, m \in MotorDraws :
    /\ getTelemetry(Train, ParkedInit, Draws(NoChange, 0, NoRates, evo, m))
    /\ UNCHANGED <<agentVars, simVars, pmVars, pickVars, backendVars>>

SpecTraction == Init /\ [][TractionTick]_vars

\* Point machines: sweeps of the rostered depots and of a depot id without
\* a roster.  The first machine of MOC changes state, drifts and is thrown
\* freely; the others stay NORMAL and still.
Point == PmId("MOC", "A1")

PmQuiet ==
  [ uChange |-> 0, uPick |-> 0, uOps |-> 0, uCur |-> 500, uVolt |-> 500,
    uStroke |-> 500, uPos |-> 999,
    iCur |-> 0, iVolt |-> 0, iStroke |-> 0, iPos |-> 999, iOps |-> 0 ]

PointDraws ==
  { [ uChange |-> c, uPick |-> k, uOps |-> o, uCur |-> d, uVolt |-> d,
      uStroke |-> d, uPos |-> q,
      iCur |-> 0, iVolt |-> 0, iStroke |-> 0, iPos |-> ip, iOps |-> io ] :
      c \in {0, 999}, k \in {0, 950, 999}, o \in {0, 999},
      d \in {999}, q \in {0, 999}, ip \in {0, 999}, io \in {0, 999} }

SweepDepots == Depots \cup {"BKK"}

\* The draws for a machine that exists: initPMState is not called.
PointEvolveDraws == {u \in PointDraws : u.iPos = 999 /\ u.iOps = 0}

Sweep ==
  \E depotId \in SweepDepots :
  \E u \in (IF depotId # "MOC" THEN {PmQuiet}
            ELSE IF pmStates[Point] = NoPM THEN PointDraws
            ELSE PointEvolveDraws) :
    /\ getPointMachineTelemetry(
         depotId,
         [i \in 1..Len(roster(depotId)) |->
            IF PmId(depotId, roster(depotId)[i]) = Point THEN u ELSE PmQuiet])
    /\ pmStates'[Point] # NoPM =>
         (pmStates'[Point].opCount <= MaxOps \/ pmStates'[Point].opCount >= 200)
    /\ UNCHANGED <<engineVars, agentVars, simVars, pickVars, backendVars>>

SpecPoints == Init /\ [][Sweep]_vars

----------------------------------------------------------------------------
\* The depot agent (index.js)

\* client.on("connect"): publish the depot registration, start the telemetry
\* loop.  The client emits "connect" at every connection it establishes.
\* simulate.js keeps its counters in the closure of each "connect" handler;
\* it is followed through its first connection, and for the first depot of
\* DEPOTS.
OnConnect ==
  /\ conn = "connecting"
  /\ connects < MaxConnects
  /\ program = "simulate" => connects = 0
  /\ conn' = "connected"
  /\ connects' = connects + 1
  /\ registrations' = publishRegistration(registrations)
  /\ loops' = startPublishing(loops)
  /\ UNCHANGED <<trainStates, event, last, trainIndex, tickCount, simVars, pmVars,
                 pending, logged, pickVars, backendVars>>

\* client.on("offline"): the connection is lost; the handler logs.
OnOffline ==
  /\ conn = "connected"
  /\ conn' = "offline"
  /\ UNCHANGED <<trainStates, event, last, connects, registrations, loops,
                 trainIndex, tickCount, simVars, pmVars, pending, logged,
                 pickVars, backendVars>>

\* client.on("reconnect"): after reconnectPeriod the client connects again;
\* the handler logs.
OnReconnect ==
  /\ conn = "offline"
  /\ conn' = "connecting"
  /\ UNCHANGED <<trainStates, event, last, connects, registrations, loops,
                 trainIndex, tickCount, simVars, pmVars, pending, logged,
                 pickVars, backendVars>>

\* The vehicles of the agent are created in service, in DWELL at the first
\* stop.
AgentInit ==
  [ uIdx |-> 0, uStatus |-> 0, uPhase |-> 0, uSpeed |-> 0, uDir |-> 999,
    uOdo |-> 999, uMaint |-> 0, uDwell |-> 0, uProg |-> 0 ]

\* The vehicles of the agent keep their status and the states of their
\* subsystems, and no measurement drifts.
AgentDraws == Draws(NoChange, 0, NoRates, EvoKeep, Still)

\* A driver that advances the first train of the roster in every tick.
firstTrain(index) == fleetEntries[1]

\* fleetEntries[trainIndex % fleetEntries.length] (sequences start at 1).
nextTrain(index) == fleetEntries[(index % FleetSize) + 1]

\* process.env.DEPOT_ID || "MOC"
DEPOT_ID == "MOC"

\* The point machines of the agent stay NORMAL, do not drift and are thrown
\* once between two sweeps.
PmSteady ==
  [ uChange |-> 0, uPick |-> 0, uOps |-> 500, uCur |-> 500, uVolt |-> 500,
    uStroke |-> 500, uPos |-> 999,
    iCur |-> 0, iVolt |-> 0, iStroke |-> 0, iPos |-> 999, iOps |-> 0 ]

\* A driver that sweeps the point machines in every tick.
publishEveryTick(tc) ==
  getPointMachineTelemetry(DEPOT_ID,
                           [i \in 1..Len(roster(DEPOT_ID)) |-> PmSteady])

\* if (tickCount % 3 === 0): sweep the point machines of the depot and
\* publish their events; tc is the tick count after its increment.
publishPointMachines(tc) ==
  IF tc % 3 = 0
  THEN getPointMachineTelemetry(DEPOT_ID,
                                [i \in 1..Len(roster(DEPOT_ID)) |-> PmSteady])
  ELSE /\ pmEvents' = << >>
       /\ UNCHANGED <<pmStates, pmLast>>

\* A callback that throws the error of a failed publish.
onPublishThrows(err) == IF err THEN "throw" ELSE "console.log"

\* The callback of the train publish: (err) => { if (err) console.error(...)
\* else console.log(...) }.
onPublish(err) == IF err THEN "console.error" ELSE "console.log"

\* The client calls the callback of a train publish that is in flight, with
\* an error or without one.  An exception that leaves the callback ends the
\* process and with it every timer.
PublishCallback ==
  /\ program = "depot-agent"
  /\ pending > 0
  /\ pending' = pending - 1
  /\ \E err \in BOOLEAN :
       /\ logged' = [did |-> onPublish(err), at |-> tickCount]
       /\ loops' = IF onPublish(err) = "throw" THEN 0 ELSE loops
  /\ UNCHANGED <<engineVars, conn, connects, registrations, trainIndex,
                 tickCount, simVars, pmVars, pickVars, backendVars>>

\* The callback of a setInterval timer of startPublishing: advance the next
\* train of the roster and publish its payload (the publish is in flight
\* until its callback runs), then sweep the point machines on every third
\* tick.
IntervalTick ==
  /\ program = "depot-agent"
  /\ loops > 0
  /\ tickCount < MaxTicks
  /\ tickCount' = tickCount + 1
  /\ trainIndex' = trainIndex + 1
  /\ getTelemetry(nextTrain(trainIndex), AgentInit, AgentDraws)
  /\ pending' = pending + 1
  /\ publishPointMachines(tickCount + 1)
  /\ UNCHANGED <<conn, connects, registrations, loops, simVars, logged, pickVars, backendVars>>

\* simulate.js: the callback of a setInterval timer set in the "connect"
\* handler: advance the next train of the depot's roster and publish its
\* payload.
SimIntervalTick ==
  /\ program = "simulate"
  /\ loops > 0
  /\ tickCount < MaxTicks
  /\ tickCount' = tickCount + 1
  /\ trainIndex' = trainIndex + 1
  /\ simTelemetry(nextTrain(trainIndex), AgentDraws)
  /\ publishPointMachines(tickCount + 1)
  /\ UNCHANGED <<trainStates, conn, connects, registrations, loops, program,
                 pending, logged, pickVars, backendVars>>

AgentNext ==
  \/ OnConnect \/ OnOffline \/ OnReconnect
  \/ IntervalTick \/ PublishCallback \/ SimIntervalTick

\* Either program, from its start through its connections and timer
\* callbacks.
SpecAgent == AnyInit /\ [][AgentNext]_vars

\* ------------------------------------------------------------------------
\* Properties of the motion engine (specification Spec).

\* The vehicle the motion properties are stated about, once it has a state.
Seen == trainStates[Train] # NoState

SpeedInRange(v) == 0 <= v /\ v <= MAX_SPEED

\* C1: the speed of a vehicle lies in [0, MAX_SPEED] = [0, 80] km/h after
\* lazy initialization and after every tick, in the stored state and in the
\* published event.
C1_SpeedInRange ==
  /\ \A ui \in InitDraws : SpeedInRange(initTrainState(ui).speed)
  /\ \A id \in TrainIds :
       trainStates[id] # NoState => SpeedInRange(trainStates[id].speed)
  /\ event # NoEvent => SpeedInRange(event.speed)

\* C1 witness: a cruising vehicle whose tick ended exactly at MAX_SPEED.
C1_Witness ==
  /\ Seen
  /\ ~last.fresh
  /\ trainStates[Train].status = "IN_SERVICE"
  /\ trainStates[Train].phase = "CRUISE"
  /\ trainStates[Train].speed = MAX_SPEED
  /\ event.speed = MAX_SPEED

\* The tick took the vehicle from DWELL into ACCEL.
Departed ==
  /\ last.prev.status = "IN_SERVICE"
  /\ last.prev.phase = "DWELL"
  /\ trainStates[Train].status = "IN_SERVICE"
  /\ trainStates[Train].phase = "ACCEL"

\* The tick took the vehicle from a status other than IN_SERVICE into
\* IN_SERVICE.
EnteredService ==
  /\ last.prev.status # "IN_SERVICE"
  /\ trainStates[Train].status = "IN_SERVICE"

\* C2: after every tick segProgress lies in [0, 1), and it is exactly 0
\* after a DWELL -> ACCEL transition and after a transition from a status
\* other than IN_SERVICE into IN_SERVICE.
C2_ProgressBelowOne ==
  Seen =>
    /\ 0 <= trainStates[Train].segProgress
    /\ trainStates[Train].segProgress < SEGMENT
    /\ Departed => trainStates[Train].segProgress = 0
    /\ EnteredService => trainStates[Train].segProgress = 0

\* The tick was an arrival: the BRAKE branch of updateTrainSpeed reached
\* the station and put the vehicle in DWELL.
Arrived ==
  /\ last.prev.status = "IN_SERVICE"
  /\ last.prev.phase = "BRAKE"
  /\ trainStates[Train].status = "IN_SERVICE"
  /\ trainStates[Train].phase = "DWELL"

OnLine(i) == 0 <= i /\ i < NumStations

\* C3: stationIndex is a valid index into the line's station list,
\* direction is +1 or -1, and a tick changes direction exactly when it is
\* an arrival at which stationIndex + direction leaves the list.
C3_ReflectingBoundary ==
  Seen =>
    /\ OnLine(trainStates[Train].stationIndex)
    /\ trainStates[Train].direction \in {1, -1}
    /\ (trainStates[Train].direction # last.prev.direction)
         <=> (Arrived /\ ~OnLine(last.prev.stationIndex + last.prev.direction))

\* C3 witness: an arrival at the last stop that turned the vehicle around.
C3_Witness ==
  /\ Seen
  /\ Arrived
  /\ last.prev.stationIndex = NumStations - 1
  /\ last.prev.direction = 1
  /\ trainStates[Train].direction = -1
  /\ trainStates[Train].stationIndex = NumStations - 2

\* ------------------------------------------------------------------------
\* Properties of the depot agent's connection handling (specification
\* SpecAgent).

\* C4: after any sequence of connect, offline and reconnect events at most
\* one fixed-interval telemetry loop is running.
C4_SingleLoop == loops <= 1

\* C5 as stated: the depot registration is published exactly once per
\* process run, at the first connection, whatever losses and reconnections
\* follow.
C5_RegisteredOnce == connects >= 1 => registrations = 1

\* C5 as the handler behaves: the depot registration is published once at
\* every connection the client establishes, the first one and each
\* reconnection.
C5_RegisteredPerConnect == registrations = connects

\* C5 witness: the client is connected again after a loss and the
\* registration has been published a second time.
C5_Witness ==
  /\ conn = "connected"
  /\ connects = 2
  /\ registrations = 2

\* ------------------------------------------------------------------------
\* Properties of the subsystems' alerts (specifications SpecHealth and
\* SpecTraction).

\* The alert codes of each subsystem.
AlertCodes ==
  [ doors |-> {"DOOR_FAULT"}, brakes |-> {"BRAKE_FAULT", "BRAKE_WARN"},
    hvac |-> {"HVAC_FAULT"}, powerRail |-> {"POWER_FAULT"},
    traction |-> {"TRACTION_OVERHEAT"}, battery |-> {"BATTERY_LOW"},
    cctv |-> {"CCTV_PARTIAL"} ]

HasAlert(alerts, codes) == \E i \in 1..Len(alerts) : alerts[i].code \in codes

\* C6: for each of the seven subsystems, when its state is FAULT after a
\* tick the alerts of that tick's event hold an alert of that subsystem.
C6_FaultAlwaysAlerts ==
  Seen =>
    \A c \in Components :
      trainStates[Train].components[c].state = "FAULT"
        => HasAlert(event.alerts, AlertCodes[c])

\* The alerts hold TRACTION_OVERHEAT with severity HIGH.
Overheat(alerts) ==
  \E i \in 1..Len(alerts) :
    alerts[i].code = "TRACTION_OVERHEAT" /\ alerts[i].severity = "HIGH"

\* The event holds the over-temperature alert exactly when the stored motor
\* temperature is above 120.
OverheatIffHot ==
  Overheat(event.alerts) <=> trainStates[Train].components.traction.motorTemp > 12000

DrivenToZero ==
  /\ last.prev.status = "IN_SERVICE"
  /\ last.prev.phase = "BRAKE"
  /\ trainStates[Train].status = "IN_SERVICE"
  /\ trainStates[Train].speed = 0

\* C8: a tick that drives the speed of an IN_SERVICE vehicle in BRAKE to 0
\* ends in DWELL with segProgress 0, speed 0, a dwellTimer in 8..20 and
\* stationIndex = old stationIndex + direction after the tick; every other
\* tick leaves stationIndex unchanged.
C8_ArrivalAtZeroSpeed ==
  Seen =>
    /\ DrivenToZero =>
         /\ trainStates[Train].phase = "DWELL"
         /\ trainStates[Train].segProgress = 0
         /\ trainStates[Train].dwellTimer \in 8..20
         /\ trainStates[Train].stationIndex
              = last.prev.stationIndex + trainStates[Train].direction
    /\ ~DrivenToZero =>
         trainStates[Train].stationIndex = last.prev.stationIndex

\* C9: a tick that leaves the status IN_DEPOT, MAINTENANCE or FAULT shows
\* speed 0 and phase DWELL in its event and has segProgress 0, whatever the
\* phase and speed before the tick.
C9_OutOfServiceStops ==
  Seen /\ trainStates[Train].status \in {"IN_DEPOT", "MAINTENANCE", "FAULT"}
    => /\ event.speed = 0
       /\ event.phase = "DWELL"
       /\ trainStates[Train].speed = 0
       /\ trainStates[Train].phase = "DWELL"
       /\ trainStates[Train].segProgress = 0

\* C9 witness: a vehicle cruising in service whose tick resampled the status
\* to MAINTENANCE.
C9_Witness ==
  /\ Seen
  /\ last.prev.status = "IN_SERVICE"
  /\ last.prev.phase = "CRUISE"
  /\ last.prev.moving
  /\ trainStates[Train].status = "MAINTENANCE"
  /\ event.speed = 0
  /\ event.phase = "DWELL"

\* The vehicle followed, in the program that runs.
Vehicle == IF program = "simulate" THEN states[Train] ELSE trainStates[Train]

\* C10: in the depot agent and in the standalone simulator, a tick that
\* changes the status from another status to IN_SERVICE ends in DWELL with
\* speed 0, segProgress 0 and a dwell still to run; and a vehicle that leaves
\* DWELL does so into ACCEL from speed 0 and segProgress 0, so the motion
\* after entering service is a full DWELL -> ACCEL cycle and never resumes
\* where it was.
C10_EntersServiceAtDwell ==
  last.trainId = Train =>
    /\ last.prev.status # "IN_SERVICE" /\ Vehicle.status = "IN_SERVICE" =>
         /\ Vehicle.phase = "DWELL"
         /\ Vehicle.speed = 0
         /\ Vehicle.segProgress = 0
         /\ Vehicle.dwellTimer >= 1
    /\ last.prev.phase = "DWELL" /\ Vehicle.phase # "DWELL" =>
         /\ Vehicle.phase = "ACCEL"
         /\ Vehicle.speed = 0
         /\ Vehicle.segProgress = 0

\* C10 witness: a vehicle of the depot agent that was out of service entered
\* service in the last tick and stands in DWELL.
C10_Witness ==
  /\ Seen
  /\ ~last.fresh
  /\ last.prev.status \in {"IN_DEPOT", "MAINTENANCE", "FAULT", "STANDBY"}
  /\ trainStates[Train].status = "IN_SERVICE"
  /\ trainStates[Train].phase = "DWELL"
  /\ trainStates[Train].segProgress = 0
----------------------------------------------------------------------------
\* The engine, called for one vehicle that stays in service and whose
\* odometer starts at 50000 km: the maintenance alert.

\* The random calls of initTrainState: in service in DWELL or in CRUISE at
\* 79 km/h, odometer 50000, lastMaintenanceKm 0, 10000 (exactly 40000 km
\* ago) or 49950.
MaintInitDraws ==
  [ uIdx : {0}, uStatus : {0}, uPhase : {0, 500}, uSpeed : {945},
    uDir : {999}, uOdo : {0}, uMaint : {0, 200, 999}, uDwell : {0},
    uProg : {0} ]

\* Only the doors resample their state.
EvoDoors == {EvoKeep} \cup {[EvoKeep EXCEPT !.doors = e] : e \in Resample}

\* ACCEL_RATE and the CRUISE delta at the high end, BRAKE_RATE at the low
\* end.
MaintRates == [uAccel |-> 999, uBrake |-> 0, uCruise |-> 999, uStandby |-> 0]

\* A tick of a vehicle that stays in service, the first one included; the
\* doors may resample their state.
MaintenanceTick ==
  /\ program = "depot-agent"
  /\ \E ui \in (IF trainStates[Train] = NoState THEN MaintInitDraws ELSE {NoInit}),
        evo \in EvoDoors :
       getTelemetry(Train, ui, Draws(NoChange, 0, MaintRates, evo, Still))
  /\ UNCHANGED <<agentVars, simVars, pmVars, pickVars, backendVars>>

SpecMaintenance == Init /\ [][MaintenanceTick]_vars

\* ------------------------------------------------------------------------
\* Properties of the maintenance alert (specification SpecMaintenance).

\* The alerts hold SCHEDULED_MAINTENANCE, with severity LOW.
MaintenanceDue(alerts) ==
  \E i \in 1..Len(alerts) :
    alerts[i].code = "SCHEDULED_MAINTENANCE" /\ alerts[i].severity = "LOW"

\* A vehicle out of service with odometer 45000 and lastMaintenanceKm 0,
\* before its first tick.
Overdue ==
  [initTrainState(ParkedInit) EXCEPT !.odometer = 45000 * 100,
                                     !.lastMaintenanceKm = 0]

\* C11: the event of a tick holds the LOW-severity SCHEDULED_MAINTENANCE
\* alert exactly when odometer - lastMaintenanceKm > 40000 after the tick,
\* whatever the subsystem states are; a vehicle with odometer 45000 and
\* lastMaintenanceKm 0 carries it after its first tick.
C11_MaintenanceIffOverdue ==
  /\ Seen =>
       (MaintenanceDue(event.alerts)
          <=> trainStates[Train].odometer - trainStates[Train].lastMaintenanceKm
                > 40000 * 100)
  /\ \A evo \in EvoOne :
       MaintenanceDue(updateTrain(Overdue,
                                  Draws(NoChange, 0, NoRates, evo, Still)).alerts)

\* C11 witness: a vehicle serviced exactly 40000 km before its odometer
\* reading at creation has moved, and its event holds the alert, after the
\* alert of a door fault.
C11_Witness ==
  /\ Seen
  /\ trainStates[Train].lastMaintenanceKm = 10000 * 100
  /\ trainStates[Train].odometer > 50000 * 100
  /\ trainStates[Train].components.doors.state = "FAULT"
  /\ MaintenanceDue(event.alerts)
\* ------------------------------------------------------------------------
\* Properties of the health score (specification SpecHealth).

\* The number of subsystems the event reports in state st.
Reported(st) ==
  Cardinality({c \in Components : event.components[c].state = st})

\* C12: the healthScore of an event equals max(0, 100 - 20*F - 5*W), F and W
\* being the numbers of subsystems the same event reports in FAULT and in
\* WARNING; it lies in 0..100.
C12_HealthScoreFormula ==
  event # NoEvent =>
    /\ event.healthScore
         = (IF 100 - 20 * Reported("FAULT") - 5 * Reported("WARNING") > 0
            THEN 100 - 20 * Reported("FAULT") - 5 * Reported("WARNING")
            ELSE 0)
    /\ event.healthScore \in 0..100

\* C12 witness: an event with six subsystems in FAULT and one in WARNING,
\* whose score is held at 0.
C12_Witness ==
  /\ event # NoEvent
  /\ Reported("FAULT") = 6
  /\ Reported("WARNING") = 1
  /\ event.healthScore = 0

----------------------------------------------------------------------------
\* Point machine events

\* The events of the last sweep.
PmEvents == {pmEvents[i] : i \in DOMAIN pmEvents}

\* The state of the device of event e before the sweep that returned e.
PmBefore(e) == pmLast.prev[e.pmId]

\* C13: every point machine event whose state is FAULT reports position
\* INTERMEDIATE and carries the one alert POINT_FAULT ("stuck throw") of
\* severity CRITICAL.
C13_FaultIsStuckThrow ==
  \A e \in PmEvents :
    e.state = "FAULT" =>
      /\ e.position = "INTERMEDIATE"
      /\ e.alert # NoAlert
      /\ e.alert.code = "POINT_FAULT"
      /\ e.alert.severity = "CRITICAL"
      /\ e.alert.message[2] = "stuck throw"

\* A machine that was thrown to NORMAL or REVERSE is reported in FAULT.
C13_Witness ==
  \E e \in PmEvents :
    /\ e.state = "FAULT"
    /\ PmBefore(e) # NoPM
    /\ PmBefore(e).position \in {"NORMAL", "REVERSE"}

\* C14: in every point machine state and in every point machine event,
\* position INTERMEDIATE implies state FAULT.
C14_IntermediateOnlyInFault ==
  /\ \A k \in PmIds :
       (pmStates[k] # NoPM /\ pmStates[k].position = "INTERMEDIATE")
         => pmStates[k].state = "FAULT"
  /\ \A e \in PmEvents : e.position = "INTERMEDIATE" => e.state = "FAULT"

\* A machine leaves FAULT, and a machine is reported in the sweep that
\* created it.
C14_Witness ==
  \E e \in PmEvents :
    /\ PmBefore(e) # NoPM
    /\ PmBefore(e).state = "FAULT"
    /\ PmBefore(e).position = "INTERMEDIATE"
    /\ e.state # "FAULT"
    /\ e.position \in {"NORMAL", "REVERSE"}

\* C15: the alert of a point machine event is determined by the state after
\* the sweep: WARNING gives the one alert POINT_SLOW ("slow operation") of
\* severity HIGH, NORMAL gives no alert.
C15_AlertFollowsState ==
  \A e \in PmEvents :
    /\ e.state = pmStates[e.pmId].state
    /\ e.state = "WARNING" =>
         e.alert = [ code |-> "POINT_SLOW", severity |-> "HIGH",
                     message |-> <<e.localId, "slow operation", e.strokeTime>> ]
    /\ e.state = "NORMAL" => e.alert = NoAlert

\* A machine goes from FAULT to WARNING while another of the same sweep is
\* NORMAL.
C15_Witness ==
  \E e, f \in PmEvents :
    /\ e.state = "WARNING"
    /\ PmBefore(e) # NoPM
    /\ PmBefore(e).state = "FAULT"
    /\ f.state = "NORMAL"

----------------------------------------------------------------------------
\* The engine, called for one vehicle that stays out of service: the
\* measurements of its subsystems.

\* The subsystems with a measurement.
Measured == {"brakes", "hvac", "traction", "battery", "cctv"}

\* The measured subsystems keep their states, or all resample to NORMAL, or
\* all to FAULT.
EvoMeasured ==
  {EvoKeep} \cup
  { [c \in Components |-> IF c \in Measured THEN e ELSE Keep] :
      e \in {[keep |-> 999, pick |-> 0], [keep |-> 999, pick |-> 999]} }

\* Every measurement drifts by the low end (d = 0) or by the high end
\* (d = 999) of its range; randInt(16, 22) gives 16 or 22.
Drift(d) ==
  [ uCar |-> 0, uPress |-> d, uTemp |-> d, uMotor |-> d, uVolt |-> d,
    uCams |-> d ]

\* A tick with the draws of the last one would leave every measurement of
\* vehicle state s where it is: each has reached an end of its range.
Settled(s) ==
  updateComponents(s.components,
                   Draws(NoChange, 0, NoRates, EvoKeep, Drift(last.drift)))[1]
    = s.components

\* A tick in which the measurements drift.  They keep drifting the same way
\* and the states are kept until every measurement has reached an end of
\* its range; then, and in the first tick, the states may resample and the
\* drift may turn.
MeasureTick ==
  \E evo \in EvoMeasured, d \in {0, 999} :
    /\ (Seen /\ ~Settled(trainStates[Train])) =>
         (evo = EvoKeep /\ d = last.drift)
    /\ getTelemetry(Train, ParkedInit, Draws(NoChange, 0, NoRates, evo, Drift(d)))
    /\ UNCHANGED <<agentVars, simVars, pmVars, pickVars, backendVars>>

SpecMeasure == Init /\ [][MeasureTick]_vars

\* v lies in lo..hi, or in flo..fhi when the state is FAULT.
InBand(state, v, lo, hi, flo, fhi) ==
  IF state = "FAULT" THEN flo <= v /\ v <= fhi ELSE lo <= v /\ v <= hi

\* C16: after every tick each measurement lies in the range selected by the
\* state of its subsystem after the tick: brake pressure in [80, 100] (FAULT
\* [55, 100]), cabin temperature in [20, 27] (FAULT [30, 38]), motor
\* temperature in [40, 110] (FAULT [40, 140]), battery voltage in [72, 80]
\* (FAULT [65, 80]), active cameras 24 (FAULT 16..22).
C16_MeasurementsInBand ==
  Seen =>
    LET c == trainStates[Train].components
    IN /\ InBand(c.brakes.state, c.brakes.pressure, 8000, 10000, 5500, 10000)
       /\ InBand(c.hvac.state, c.hvac.cabinTemp, 2000, 2700, 3000, 3800)
       /\ InBand(c.traction.state, c.traction.motorTemp, 4000, 11000, 4000, 14000)
       /\ InBand(c.battery.state, c.battery.voltage, 7200, 8000, 6500, 8000)
       /\ InBand(c.cctv.state, c.cctv.activeCams, 24, 24, 16, 22)
       /\ event.components = c

\* The subsystems leave FAULT in a tick that starts with the brake pressure
\* under 80, the cabin over 27 and the battery under 72: each is stored at
\* the end of the range of NORMAL.
C16_Witness ==
  /\ Seen
  /\ ~last.fresh
  /\ last.prev.alerted
  /\ \A c \in Measured : trainStates[Train].components[c].state = "NORMAL"
  /\ trainStates[Train].components.brakes.pressure = 8000
  /\ trainStates[Train].components.hvac.cabinTemp = 2700
  /\ trainStates[Train].components.battery.voltage = 7200

----------------------------------------------------------------------------
\* The alerts of a vehicle event

\* The alert codes in the order updateTrain pushes them.
AlertOrder ==
  << "DOOR_FAULT", "BRAKE_FAULT", "BRAKE_WARN", "HVAC_FAULT", "POWER_FAULT",
     "TRACTION_OVERHEAT", "BATTERY_LOW", "CCTV_PARTIAL",
     "SCHEDULED_MAINTENANCE" >>

\* The condition of the alert with the given code holds in vehicle state s.
Due(code, s) ==
  LET c == s.components
  IN CASE code = "DOOR_FAULT" -> c.doors.state = "FAULT"
       [] code = "BRAKE_FAULT" -> c.brakes.state = "FAULT"
       [] code = "BRAKE_WARN" -> c.brakes.state = "WARNING"
       [] code = "HVAC_FAULT" -> c.hvac.state = "FAULT"
       [] code = "POWER_FAULT" -> c.powerRail.state = "FAULT"
       [] code = "TRACTION_OVERHEAT" -> c.traction.motorTemp > 12000
       [] code = "BATTERY_LOW" -> c.battery.voltage < 7200
       [] code = "CCTV_PARTIAL" -> c.cctv.state = "FAULT"
       [] code = "SCHEDULED_MAINTENANCE" ->
            s.odometer - s.lastMaintenanceKm > 40000 * 100

\* The codes of a list of alerts, in order.
Codes(alerts) == [i \in 1..Len(alerts) |-> alerts[i].code]

\* C17: the alerts of a vehicle event are those whose condition holds in the
\* state after the tick, and no others: nothing of the previous event is
\* carried over, and the list holds at most one alert per subsystem and at
\* most one maintenance alert.
C17_AlertsRebuiltEachTick ==
  Seen =>
    LET DueNow(code) == Due(code, trainStates[Train])
    IN /\ Codes(event.alerts) = SelectSeq(AlertOrder, DueNow)
       /\ trainStates[Train].alerts = event.alerts
       /\ \A c \in Components :
            Cardinality({i \in 1..Len(event.alerts) :
                           event.alerts[i].code \in AlertCodes[c]}) <= 1
       /\ Cardinality({i \in 1..Len(event.alerts) :
                         event.alerts[i].code = "SCHEDULED_MAINTENANCE"}) <= 1

\* The previous event of the vehicle held an alert, this one holds none: the
\* subsystem went back to NORMAL.
C17_Witness ==
  /\ Seen
  /\ ~last.fresh
  /\ last.prev.alerted
  /\ event.alerts = << >>
  /\ \A c \in Components : trainStates[Train].components[c].state # "FAULT"

----------------------------------------------------------------------------
\* Lazy initialization

\* The number of calls of getTelemetry made so far for the k-th vehicle of
\* the roster.
Calls(k) == Cardinality({j \in 0..(trainIndex - 1) : j % FleetSize = k - 1})

\* The number of sweeps made so far.
Sweeps == tickCount \div 3

RECURSIVE Evolved(_)
\* The state of a vehicle of the agent after n calls: created once, then
\* advanced n times.
Evolved(n) ==
  IF n = 0 THEN initTrainState(AgentInit) ELSE updateTrain(Evolved(n - 1), AgentDraws)

RECURSIVE EvolvedPM(_)
\* The state of a point machine of the agent after n sweeps.
EvolvedPM(n) ==
  IF n = 0 THEN initPMState(PmSteady) ELSE evolvePM(EvolvedPM(n - 1), PmSteady)

\* C18: the first getTelemetry call for a vehicle id creates its state and
\* applies one evolution step before the event is built; every later call
\* evolves the state that exists and never creates it again.  The same
\* holds for each device id in a point machine sweep.
C18_LazyInitOnce ==
  /\ program = "depot-agent" =>
       /\ \A k \in 1..FleetSize :
            trainStates[fleetEntries[k]] =
              IF Calls(k) = 0 THEN NoState ELSE Evolved(Calls(k))
       /\ last.trainId # 0 =>
            /\ last.fresh <=> (\E k \in 1..FleetSize :
                                 fleetEntries[k] = last.trainId /\ Calls(k) = 1)
            /\ event = payload(last.trainId, trainStates[last.trainId])
  /\ \A i \in 1..Len(roster(DEPOT_ID)) :
       pmStates[PmId(DEPOT_ID, roster(DEPOT_ID)[i])] =
         IF Sweeps = 0 THEN NoPM ELSE EvolvedPM(Sweeps)

\* Every vehicle has been advanced twice or more, the second vehicle in the
\* last call, and the point machines have been swept twice.
C18_Witness ==
  /\ program = "depot-agent"
  /\ \A k \in 1..FleetSize : Calls(k) >= 2
  /\ ~last.fresh
  /\ last.trainId = fleetEntries[FleetSize]
  /\ Sweeps >= 2
  /\ Evolved(2) # Evolved(1)
  /\ EvolvedPM(2) # EvolvedPM(1)

----------------------------------------------------------------------------
\* The round robin of the driver

\* The place of a train in the roster.
Position(trainId) == CHOOSE k \in 1..FleetSize : fleetEntries[k] = trainId

\* The vehicle states of the running program.
Fleet == IF program = "simulate" THEN states ELSE trainStates

\* C19: the driver advances the vehicles in roster order modulo N: a tick
\* advances the vehicle that follows, in the roster taken as a ring, the one
\* advanced by the tick before (the first of the roster in the first tick),
\* and leaves every other vehicle as it is.  So N consecutive ticks advance
\* every vehicle exactly once.
C19_RoundRobin ==
  [][ trainIndex' # trainIndex =>
        /\ trainIndex' = trainIndex + 1
        /\ last'.trainId =
             IF last.trainId = 0 THEN fleetEntries[1]
             ELSE fleetEntries[(Position(last.trainId) % FleetSize) + 1]
        /\ \A id \in TrainIds \ {last'.trainId} : Fleet'[id] = Fleet[id] ]_vars

\* A single loop has gone round the roster and advances its first vehicle
\* again.
C19_Witness ==
  /\ loops = 1
  /\ trainIndex > FleetSize
  /\ last.trainId = fleetEntries[1]
  /\ FleetSize > 1

----------------------------------------------------------------------------
\* The point machine sweeps of the driver

\* The operations a device has counted before a sweep of the driver: those
\* of initPMState (0 with the draws of PmSteady) for a device not seen yet.
OpsBefore(p) == IF p = NoPM THEN initPMState(PmSteady).opCount ELSE p.opCount

\* C20: point machines are swept only on driver ticks whose tick count is a
\* multiple of 3; a sweep advances every device of the roster of the depot
\* exactly once (each counts the one operation of its draws) and returns one
\* event per device in roster order; no device is advanced on any other
\* tick.  A depot id without a roster gets an empty batch and no device is
\* touched.
C20_SweepEveryThirdTick ==
  [][ LET ids == roster(DEPOT_ID)
           swept == {PmId(DEPOT_ID, ids[i]) : i \in 1..Len(ids)}
       IN /\ pmStates' # pmStates =>
               (tickCount' = tickCount + 1 /\ tickCount' % 3 = 0)
          /\ (tickCount' # tickCount /\ tickCount' % 3 = 0) =>
               /\ Len(pmEvents') = Len(ids)
               /\ \A i \in 1..Len(ids) :
                    /\ pmEvents'[i].localId = ids[i]
                    /\ pmEvents'[i].pmId = PmId(DEPOT_ID, ids[i])
                    /\ pmEvents'[i].opCount = pmStates'[PmId(DEPOT_ID, ids[i])].opCount
               /\ \A k \in swept :
                    /\ pmStates'[k] # NoPM
                    /\ pmStates'[k].opCount = OpsBefore(pmStates[k]) + 1
               /\ \A k \in PmIds \ swept : pmStates'[k] = pmStates[k]
          /\ (tickCount' # tickCount /\ tickCount' % 3 # 0) =>
               (pmStates' = pmStates /\ pmEvents' = << >>)
          /\ LET r == sweep(pmStates', "BKK", << >>)
             IN r.events = << >> /\ r.states = pmStates' ]_vars

\* The second sweep of the driver: the sixth tick returned the events of
\* the roster, for devices that existed before it.
C20_Witness ==
  /\ tickCount = 6
  /\ Len(pmEvents) = Len(roster(DEPOT_ID))
  /\ Len(pmEvents) > 1
  /\ \A i \in 1..Len(pmEvents) :
       /\ pmLast.prev[pmEvents[i].pmId] # NoPM
       /\ pmEvents[i].opCount = 2

----------------------------------------------------------------------------
\* The dwell at a stop (specification Spec)

\* The tick kept a vehicle in service in DWELL.
Dwelling ==
  /\ last.prev.status = "IN_SERVICE"
  /\ last.prev.phase = "DWELL"
  /\ trainStates[Train].status = "IN_SERVICE"
  /\ trainStates[Train].phase = "DWELL"

\* C24: a vehicle that arrives at a stop and stays IN_SERVICE ends at least
\* 8 and at most 20 ticks in DWELL, the arrival tick included, and leaves
\* for ACCEL with segProgress 0 exactly in the tick in which dwellTimer
\* reaches 0; while the phase is DWELL at the end of a tick, dwellTimer is
\* between 1 and 20.
C24_DwellLasts8To20 ==
  Seen =>
    /\ trainStates[Train].phase = "DWELL" => trainStates[Train].dwellTimer \in 1..20
    /\ Arrived => (trainStates[Train].dwellTimer \in 8..20 /\ last.dwelt = 1)
    /\ Dwelling =>
         /\ trainStates[Train].dwellTimer = last.prev.dwellTimer - 1
         /\ last.prev.dwellTimer > 1
    /\ Departed =>
         /\ last.prev.dwellTimer = 1
         /\ trainStates[Train].dwellTimer = 0
         /\ trainStates[Train].segProgress = 0
         /\ last.dwelt > 0 => last.dwelt \in 8..20

\* The vehicle leaves a stop it arrived at 20 ticks before.
C24_Witness ==
  /\ Seen
  /\ Departed
  /\ last.dwelt = 20
----------------------------------------------------------------------------
\* The station announced as next (specification Spec)

\* C28: the event reports nextStation = null exactly when the phase is DWELL,
\* and otherwise (the vehicle is under way, in service) the station at which
\* the vehicle's next arrival puts it, also when the vehicle left the first
\* or the last stop heading outward and the arrival is reflected inward.
C28_NextStationIsNextArrival ==
  Seen =>
    /\ (event.nextStation = <<"null">>) <=> (event.phase = "DWELL")
    /\ event.phase # "DWELL" /\ trainStates[Train].status = "IN_SERVICE" =>
         event.nextStation = arrive(trainStates[Train], 0).currentStation

----------------------------------------------------------------------------
\* The standalone simulator out of service (specification SpecService)

\* C30: in the standalone simulator segProgress is 0 whenever the phase is
\* DWELL after a tick, also after a tick that resampled the status of a
\* vehicle under way to a status other than IN_SERVICE.
C30_DwellAtZeroProgress ==
  program = "simulate" /\ last.trainId = Train =>
    (Vehicle.phase = "DWELL" => Vehicle.segProgress = 0)
----------------------------------------------------------------------------
\* The counters: odometer, lastMaintenanceKm, opCount (specification
\* SpecCounters)

\* A vehicle created in CRUISE at 79 km/h or in STANDBY, in either
\* direction, with the odometer at the low end of its range: it has
\* MaxTravel hundredths of a km to run before the model stops counting.
CounterInitDraws ==
  [ uIdx : {0}, uStatus : {0, 600}, uPhase : {500}, uSpeed : {945},
    uDir : {0, 999}, uOdo : {0}, uMaint : {0}, uDwell : {0}, uProg : {0} ]

\* No status change, or a change to IN_SERVICE, STANDBY or MAINTENANCE.
CounterStatusDraws ==
  {NoChange} \cup {[uChange |-> 0, uStatus |-> r] : r \in {0, 600, 950}}

\* A tick of the vehicle, the first one included.
OdometerTick ==
  /\ program = "depot-agent"
  /\ \E ui \in (IF trainStates[Train] = NoState THEN CounterInitDraws ELSE {NoInit}),
        st \in CounterStatusDraws :
       getTelemetry(Train, ui, Draws(st, 0, MaintRates, EvoKeep, Still))
  /\ UNCHANGED <<agentVars, simVars, pmVars, pickVars, backendVars>>

\* The machine Point is created with opCount 200 and thrown 0, 1 or 2 times
\* between two sweeps; it stays NORMAL and does not drift.
CounterPointDraws ==
  {[PmSteady EXCEPT !.uOps = o, !.iOps = 999] : o \in {0, 500, 999}}

\* A sweep of the depot of Point.
CounterSweep ==
  /\ \E u \in CounterPointDraws :
       getPointMachineTelemetry(
         DEPOT_ID,
         [i \in 1..Len(roster(DEPOT_ID)) |->
            IF PmId(DEPOT_ID, roster(DEPOT_ID)[i]) = Point THEN u ELSE PmQuiet])
  /\ UNCHANGED <<engineVars, agentVars, simVars, pickVars, backendVars>>

SpecCounters == Init /\ [][OdometerTick \/ CounterSweep]_vars

\* C22: a tick never decreases the odometer of a vehicle (the first tick
\* included: the odometer is at least the one initTrainState drew) and never
\* changes its lastMaintenanceKm, which stays in the range randInt(0, 49999)
\* of its initialization; a sweep never decreases the opCount of a point
\* machine: it adds 0, 1 or 2.
C22_CountersNeverDecrease ==
  [][ /\ trainStates[Train] = NoState /\ trainStates'[Train] # NoState =>
           /\ trainStates'[Train].odometer >= last'.prev.odometer
           /\ last'.prev.odometer \in (100 * 50000)..OdometerCap
           /\ trainStates'[Train].lastMaintenanceKm \in 0..(49999 * 100)
      /\ trainStates[Train] # NoState =>
           /\ trainStates'[Train] # NoState
           /\ trainStates'[Train].odometer >= trainStates[Train].odometer
           /\ trainStates'[Train].lastMaintenanceKm
                = trainStates[Train].lastMaintenanceKm
      /\ \A k \in PmIds :
           pmStates[k] # NoPM =>
             /\ pmStates'[k] # NoPM
             /\ pmStates'[k].opCount - pmStates[k].opCount \in 0..2
    ]_vars

\* C22 witness: the vehicle has run since its creation, in the direction -1,
\* and stands out of service with the distance counted; Point was created
\* with opCount 200 and has been thrown twice since.
C22_Witness ==
  /\ Seen
  /\ trainStates[Train].direction = -1
  /\ trainStates[Train].status = "STANDBY"
  /\ trainStates[Train].odometer > 100 * 50000
  /\ trainStates[Train].odometer < OdometerCap
  /\ pmStates[Point] # NoPM
  /\ pmLast.depotId = DEPOT_ID
  /\ pmLast.prev[Point] # NoPM
  /\ pmLast.prev[Point].opCount = 200
  /\ pmStates[Point].opCount = 202
----------------------------------------------------------------------------
\* Vehicles out of service

\* C25 (specification Spec): after every tick that leaves the status
\* STANDBY the speed lies in [0, 15] km/h and is not greater than the speed
\* before the tick, the phase is DWELL, the dwellTimer is a value of
\* randInt(8, 20) and segProgress is 0.
C25_StandbyIdles ==
  Seen /\ trainStates[Train].status = "STANDBY" =>
    /\ 0 <= trainStates[Train].speed
    /\ trainStates[Train].speed <= 15 * 100
    /\ trainStates[Train].speed <= last.prev.speed
    /\ trainStates[Train].phase = "DWELL"
    /\ trainStates[Train].dwellTimer \in 8..20
    /\ trainStates[Train].segProgress = 0

\* C25 witness: a vehicle in STANDBY with a dwellTimer of 8 was ticked, stays
\* in STANDBY and has a dwellTimer of 20.
C25_Witness ==
  /\ Seen
  /\ last.prev.status = "STANDBY"
  /\ last.prev.dwellTimer = 8
  /\ trainStates[Train].status = "STANDBY"
  /\ trainStates[Train].dwellTimer = 20
  /\ trainStates[Train].phase = "DWELL"

\* C29 (specification SpecCounters): in the depot agent, after every tick,
\* the first one included, a vehicle whose status is not IN_SERVICE, STANDBY
\* included, has speed 0, phase DWELL and segProgress 0, and its odometer is
\* the one it had before the tick.
C29_OutOfServiceStandsStill ==
  Seen /\ trainStates[Train].status # "IN_SERVICE" =>
    /\ trainStates[Train].speed = 0
    /\ trainStates[Train].phase = "DWELL"
    /\ trainStates[Train].segProgress = 0
    /\ trainStates[Train].odometer = last.prev.odometer
    /\ event.odometer = Round0(last.prev.odometer)

\* C29 witness: a vehicle cruising in service, its odometer still counting,
\* was taken to STANDBY by the tick.
C29_Witness ==
  /\ Seen
  /\ last.prev.status = "IN_SERVICE"
  /\ last.prev.phase = "CRUISE"
  /\ last.prev.speed > 0
  /\ last.prev.odometer > 100 * 50000
  /\ last.prev.odometer < OdometerCap - 7
  /\ trainStates[Train].status = "STANDBY"
  /\ trainStates[Train].odometer = last.prev.odometer
----------------------------------------------------------------------------
\* The measurements of a point machine (specification SpecPoints)

\* The ranges of motorCurrent (A), voltage (V) and strokeTime (ms) of a
\* device in the given state, in hundredths.
InStateRange(p) ==
  IF p.state = "FAULT"
  THEN /\ p.motorCurrent \in 600..1200
       /\ p.voltage \in 8500..11000
       /\ p.strokeTime \in 300000..1200000
  ELSE IF p.state = "WARNING"
  THEN /\ p.motorCurrent \in 200..600
       /\ p.voltage \in 10000..11500
       /\ p.strokeTime \in 300000..650000
  ELSE /\ p.motorCurrent \in 180..300
       /\ p.voltage \in 10800..11500
       /\ p.strokeTime \in 300000..350000

\* C27: after every sweep the stored motorCurrent, voltage and strokeTime of
\* each point machine lie in the range of the state the machine has after
\* that sweep, also when the sweep changed the state, and the event of the
\* sweep reports them so.
C27_MeasurementsInStateRange ==
  /\ \A k \in PmIds : pmStates[k] # NoPM => InStateRange(pmStates[k])
  /\ \A e \in PmEvents : InStateRange(e)

\* C27 witness: a sweep took a machine from FAULT to NORMAL and left its
\* measurements at the ends of the NORMAL ranges: 3.0 A, 108 V, 3500 ms.
C27_Witness ==
  /\ pmLast.depotId = "MOC"
  /\ pmLast.prev[Point] # NoPM
  /\ pmLast.prev[Point].state = "FAULT"
  /\ pmStates[Point].state = "NORMAL"
  /\ pmStates[Point].motorCurrent = 300
  /\ pmStates[Point].voltage = 10800
  /\ pmStates[Point].strokeTime = 350000
----------------------------------------------------------------------------
\* The phase changes out of ACCEL and CRUISE (specification Spec)

\* The tick started in service in the given phase and ended in service.
Ran(phase) ==
  /\ Seen
  /\ last.prev.status = "IN_SERVICE"
  /\ last.prev.phase = phase
  /\ trainStates[Train].status = "IN_SERVICE"

\* C23: after a tick in ACCEL the phase is BRAKE if the new segProgress is
\* >= 0.68, otherwise CRUISE if the new speed is >= 73.6 km/h (92% of 80),
\* otherwise ACCEL; after a tick in CRUISE the phase is BRAKE exactly when
\* the new segProgress is >= 0.68, otherwise CRUISE.
C23_PhaseThresholds ==
  /\ Ran("ACCEL") =>
       trainStates[Train].phase =
         IF trainStates[Train].segProgress >= BRAKE_CUE THEN "BRAKE"
         ELSE IF 100 * trainStates[Train].speed >= MAX_SPEED * 92 THEN "CRUISE"
         ELSE "ACCEL"
  /\ Ran("CRUISE") =>
       trainStates[Train].phase =
         IF trainStates[Train].segProgress >= BRAKE_CUE THEN "BRAKE"
         ELSE "CRUISE"
----------------------------------------------------------------------------
\* Publish failures (specification SpecAgent)

\* C21: a failed publish never stops or stalls the tick loop of the depot
\* agent.  No step stops a timer.  The callback of a publish only logs: it
\* leaves the timers, the round-robin index, the tick count, the connection
\* and the vehicles as they are, whether it reports an error or not.  The
\* timer callback does not wait for the publishes in flight: each of its
\* runs, with the broker offline or after an error as well, advances the
\* tick count and the round-robin index by one, advances the next vehicle
\* of the roster and leaves one more publish in flight.
C21_PublishFailureKeepsLoop ==
  [][ /\ loops' >= loops
      /\ pending' < pending =>
           /\ logged'.did \in {"console.error", "console.log"}
           /\ logged'.at = tickCount
           /\ UNCHANGED <<loops, trainIndex, tickCount, trainStates, conn>>
      /\ program = "depot-agent" /\ tickCount' # tickCount =>
           /\ tickCount' = tickCount + 1
           /\ trainIndex' = trainIndex + 1
           /\ last'.trainId = nextTrain(trainIndex)
           /\ pending' = pending + 1
           /\ UNCHANGED <<loops, logged, conn>>
    ]_vars

\* C21 witness: the broker is offline, the last publish callback reported an
\* error, and the timer callback has run since, with a publish still in
\* flight, and advanced the second vehicle of the roster.
C21_Witness ==
  /\ program = "depot-agent"
  /\ conn = "offline"
  /\ logged.did = "console.error"
  /\ logged.at < tickCount
  /\ loops > 0
  /\ last.trainId = fleetEntries[2]
  /\ trainIndex = tickCount
  /\ pending > 0
----------------------------------------------------------------------------
\* weightedPick (specification SpecPick)

\* The mappings weightedPick and wPick are called with.
Mappings == {STATUS_WEIGHTS, COMPONENT_STATE, PM_STATE, STATUS_W}

\* One call of weightedPick(weights) whose draw Math.random() * total is r:
\* any r in [0, total], and the values past the total that stand for a
\* remainder left above 0 after the last entry.
Pick ==
  /\ picked = NoPick
  /\ \E weights \in Mappings :
     \E r \in 0..(totalFrom(weights, 1) + MaxDrift) :
       picked' = [weights |-> weights, r |-> r, key |-> pickFrom(weights, 1, r)]
  /\ UNCHANGED <<engineVars, agentVars, simVars, pmVars, backendVars>>

SpecPick == Init /\ [][Pick]_vars

\* The sum of the weights of the first i entries.
cumulative(weights, i) == totalFrom(weights, 1) - totalFrom(weights, i + 1)

\* The entries whose cumulative weight is at least r.
Reaching(weights, r) == {i \in 1..Len(weights) : cumulative(weights, i) >= r}

\* C26: weightedPick returns a key of the mapping; for a draw r in
\* [0, total) it is the first key, in the order of the mapping, whose
\* cumulative weight is >= r; and when no entry brings the remainder to
\* <= 0 it is the first key of the mapping.
C26_WeightedPickFirstReaching ==
  picked # NoPick =>
    LET weights == picked.weights
        reach == Reaching(weights, picked.r)
    IN /\ \E i \in 1..Len(weights) : picked.key = weights[i][1]
       /\ picked.r < totalFrom(weights, 1) =>
            /\ reach # {}
            /\ \A i \in reach :
                 (\A j \in reach : i <= j) => picked.key = weights[i][1]
       /\ reach = {} => picked.key = weights[1][1]

\* C26 witness: a draw that drift left past the total of STATUS_WEIGHTS
\* returned IN_SERVICE, its first key.
C26_Witness ==
  /\ picked # NoPick
  /\ picked.weights = STATUS_WEIGHTS
  /\ picked.r > totalFrom(STATUS_WEIGHTS, 1)
  /\ picked.key = "IN_SERVICE"
----------------------------------------------------------------------------
\* The maintenance alert over time (specification SpecMaintenance)

\* C31: once an event of a vehicle holds the SCHEDULED_MAINTENANCE alert,
\* the event of every later tick of that vehicle holds it too: the odometer
\* does not decrease and lastMaintenanceKm does not change.
C31_MaintenanceNeverClears ==
  [][ /\ event # NoEvent
      /\ event'.trainId = event.trainId
      /\ MaintenanceDue(event.alerts)
      => /\ MaintenanceDue(event'.alerts)
         /\ trainStates'[event.trainId].odometer
              >= trainStates[event.trainId].odometer
         /\ trainStates'[event.trainId].lastMaintenanceKm
              = trainStates[event.trainId].lastMaintenanceKm
    ]_vars

\* C31 witness: a vehicle serviced exactly 40000 km before its reading at
\* creation, which carried no alert then, has run for at least two ticks:
\* the alert raised by the first is in the event of a later one.
C31_Witness ==
  /\ Seen
  /\ ~last.fresh
  /\ trainStates[Train].lastMaintenanceKm = 10000 * 100
  /\ last.prev.odometer > 50000 * 100
  /\ trainStates[Train].odometer > last.prev.odometer
  /\ MaintenanceDue(event.alerts)
----------------------------------------------------------------------------
\* The order of the phases (specification Spec)

\* The phase changes of the speed state machine.
PhaseArcs ==
  { <<"DWELL", "ACCEL">>, <<"ACCEL", "CRUISE">>, <<"ACCEL", "BRAKE">>,
    <<"CRUISE", "BRAKE">>, <<"BRAKE", "DWELL">> }

\* C32: a tick, the first one after lazy initialization included, keeps the
\* phase, or changes it along DWELL -> ACCEL, ACCEL -> CRUISE, ACCEL -> BRAKE,
\* CRUISE -> BRAKE or BRAKE -> DWELL, or takes it to DWELL while changing the
\* status; a tick that arrives leaves the vehicle dwelling, and a tick that
\* departs leaves it at the stop and in the direction it had.
C32_PhaseOrder ==
  Seen =>
    /\ \/ trainStates[Train].phase = last.prev.phase
       \/ <<last.prev.phase, trainStates[Train].phase>> \in PhaseArcs
       \/ /\ trainStates[Train].phase = "DWELL"
          /\ trainStates[Train].status # last.prev.status
    /\ trainStates[Train].stationIndex # last.prev.stationIndex =>
         /\ last.prev.phase = "BRAKE"
         /\ trainStates[Train].phase = "DWELL"
         /\ trainStates[Train].dwellTimer >= 8
    /\ Departed =>
         /\ trainStates[Train].stationIndex = last.prev.stationIndex
         /\ trainStates[Train].direction = last.prev.direction

\* C32 witness: a vehicle still accelerating passed the braking cue and went
\* from ACCEL to BRAKE in one tick.
C32_Witness ==
  /\ Ran("ACCEL")
  /\ trainStates[Train].phase = "BRAKE"
  /\ 100 * trainStates[Train].speed < MAX_SPEED * 92
----------------------------------------------------------------------------
\* Speed and phase in the event (specification Spec)

\* C33: in every event of a vehicle phase DWELL implies speed 0 and phase
\* CRUISE implies 70.4 <= speed <= 80 km/h (88% to 100% of MAX_SPEED), also
\* in the first event of a vehicle that initTrainState put in CRUISE below
\* 70.4 km/h.
C33_SpeedFitsPhase ==
  Seen =>
    /\ event.phase = trainStates[Train].phase
    /\ event.speed = trainStates[Train].speed
    /\ event.phase = "DWELL" => event.speed = 0
    /\ event.phase = "CRUISE" =>
         /\ 100 * event.speed >= MAX_SPEED * 88
         /\ event.speed <= MAX_SPEED

\* C33 witness: the first event of a vehicle created in CRUISE at 60 km/h
\* reports CRUISE at 70.4 km/h.
C33_Witness ==
  /\ Seen
  /\ last.fresh
  /\ last.prev.phase = "CRUISE"
  /\ last.prev.speed = 60 * 100
  /\ event.phase = "CRUISE"
  /\ event.speed = 7040
----------------------------------------------------------------------------
\* The position on the line (specification Spec)

\* C34: after every tick currentStation is stations[stationIndex], in the
\* state and in the event; a tick that is not an arrival (BRAKE -> DWELL in
\* service) leaves stationIndex and direction, and with them currentStation,
\* as they were, whatever it does to the status.
C34_PositionChangesOnArrivalOnly ==
  Seen =>
    /\ OnLine(trainStates[Train].stationIndex)
    /\ trainStates[Train].currentStation
         = stations[trainStates[Train].stationIndex]
    /\ event.currentStation = stations[trainStates[Train].stationIndex]
    /\ ~Arrived =>
         /\ trainStates[Train].stationIndex = last.prev.stationIndex
         /\ trainStates[Train].direction = last.prev.direction

\* C34 witness: a vehicle braking between two stops, away from the first
\* stop, was taken out of service by the tick and is still where it was.
C34_Witness ==
  /\ Seen
  /\ last.prev.status = "IN_SERVICE"
  /\ last.prev.phase = "BRAKE"
  /\ last.prev.stationIndex = NumStations - 1
  /\ trainStates[Train].status = "IN_DEPOT"
  /\ trainStates[Train].phase = "DWELL"
  /\ trainStates[Train].stationIndex = NumStations - 1
  /\ trainStates[Train].currentStation = stations[NumStations - 1]
----------------------------------------------------------------------------
\* A vehicle that stays in service (specification SpecRoute)

\* initTrainState puts the vehicle in service, in any phase.
RouteInitDraws == {ui \in InitDraws : ui.uStatus = 0}

\* A tick that leaves the status as it is, the first one included.
RouteTick ==
  /\ program = "depot-agent"
  /\ \E ui \in (IF trainStates[Train] = NoState THEN RouteInitDraws ELSE {NoInit}),
        uDwell \in {0, 999},
        r \in (IF trainStates[Train] = NoState THEN RateDraws
               ELSE RatesAfter(trainStates[Train])) :
       getTelemetry(Train, ui, Draws(NoChange, uDwell, r, EvoKeep, Still))
  /\ UNCHANGED <<agentVars, simVars, pmVars, pickVars, backendVars>>

\* The vehicle keeps being advanced: setInterval runs the tick again and
\* again.  A tick is always possible, so that weak fairness of the tick is
\* []<><<RouteTick>>_vars.
SpecRoute == Init /\ [][RouteTick]_vars /\ []<><<RouteTick>>_vars

\* Every tick the vehicle can take changes its state: the vehicle is never
\* at rest in a state that ticks leave as it is.
Advances ==
  \A uDwell \in {0, 999}, r \in RatesAfter(trainStates[Train]) :
    updateTrain(trainStates[Train], Draws(NoChange, uDwell, r, EvoKeep, Still))
      # trainStates[Train]

\* C35: a vehicle that keeps being advanced and stays IN_SERVICE is, in
\* every state it reaches, changed by its next tick, and from every such
\* state it eventually arrives (BRAKE -> DWELL) at the first stop of its
\* route, eventually arrives at the last stop, and eventually departs
\* (DWELL -> ACCEL): arrivals and departures recur forever.
C35_ArrivalsRecur ==
  /\ [](Seen => Advances)
  /\ []<>(Seen /\ Arrived /\ trainStates[Train].stationIndex = 0)
  /\ []<>(Seen /\ Arrived /\ trainStates[Train].stationIndex = NumStations - 1)
  /\ []<>(Seen /\ Departed)

\* C35 witness: a vehicle has arrived at the first stop, dwelt there for 8
\* ticks or more and departed; the direction it arrived with turns at its
\* next arrival.
C35_Witness ==
  /\ Seen
  /\ Departed
  /\ last.dwelt >= 8
  /\ trainStates[Train].stationIndex = 0
  /\ trainStates[Train].direction = -1
----------------------------------------------------------------------------
\* What a call leaves alone (specification SpecFrame)

\* The first vehicle is created cruising in service, the others in STANDBY.
FrameInit(trainId) ==
  IF trainId = Train
  THEN [AgentInit EXCEPT !.uPhase = 500, !.uSpeed = 945]
  ELSE [AgentInit EXCEPT !.uStatus = 600]

\* getTelemetry for any vehicle of the fleet; the status stays as it is.
FrameTick ==
  /\ program = "depot-agent"
  /\ \E trainId \in TrainIds :
       getTelemetry(trainId, FrameInit(trainId),
                    Draws(NoChange, 0, MaintRates, EvoKeep, Still))
  /\ UNCHANGED <<agentVars, simVars, pmVars, pickVars, backendVars>>

\* The machines of MOC are created with opCount 200 and thrown once between
\* two sweeps; those of the other depots are created with opCount 0 and stay
\* there.
FrameSweepDraws(depotId) ==
  IF depotId = DEPOT_ID THEN [PmSteady EXCEPT !.iOps = 999] ELSE PmQuiet

\* getPointMachineTelemetry for any depot with a roster.
FrameSweep ==
  /\ \E depotId \in Depots :
       getPointMachineTelemetry(
         depotId,
         [i \in 1..Len(roster(depotId)) |-> FrameSweepDraws(depotId)])
  /\ UNCHANGED <<engineVars, agentVars, simVars, pickVars, backendVars>>

SpecFrame == Init /\ [][FrameTick \/ FrameSweep]_vars

\* C36: a call that changes the state of a vehicle is a tick of that vehicle
\* and changes the state of no other vehicle and of no point machine; a call
\* that changes the state of a point machine is a sweep of the depot of that
\* machine and changes the state of no machine of another depot (the same
\* local id included) and of no vehicle.
C36_CallsChangeTheirOwnState ==
  [][ /\ \A id \in TrainIds :
           trainStates'[id] # trainStates[id] =>
             /\ last'.trainId = id
             /\ event'.trainId = id
             /\ \A other \in TrainIds \ {id} :
                  trainStates'[other] = trainStates[other]
             /\ pmStates' = pmStates
      /\ \A k \in PmIds :
           pmStates'[k] # pmStates[k] =>
             /\ pmLast'.depotId = k[1]
             /\ \A j \in PmIds : j[1] # k[1] => pmStates'[j] = pmStates[j]
             /\ trainStates' = trainStates
    ]_vars

\* C36 witness: both vehicles and the machines of both depots exist; the
\* machines A1 of MOC and of KHU hold different counts, and the last sweep, of
\* KHU, and the last tick, of the second vehicle, left the first vehicle
\* braking.
C36_Witness ==
  /\ \A id \in TrainIds : trainStates[id] # NoState
  /\ \A k \in PmIds : pmStates[k] # NoPM
  /\ pmStates[PmId("MOC", "A1")].opCount = 202
  /\ pmStates[PmId("KHU", "A1")].opCount = 0
  /\ pmLast.depotId = "KHU"
  /\ last.trainId = fleetEntries[2]
  /\ trainStates[Train].phase = "BRAKE"
  /\ trainStates[fleetEntries[2]].status = "STANDBY"
----------------------------------------------------------------------------
\* The backend: store.js, mqttClient.js and routes/api.js.

\* store.js: MAX_ALERT_LOG.
MAX_ALERT_LOG == 200

\* The first FreeMessages train messages carry any payload of PayloadKinds,
\* the later ones the payload with every alert; MaxMessages train messages
\* are followed.
FreeMessages == 2
MaxMessages == 28

\* The alert lists of the payloads: none, the maintenance reminder alone, and
\* every alert getTelemetry can raise at once, in the order it raises them.
QuietAlerts == << >>
DueAlerts == << Alert("SCHEDULED_MAINTENANCE", "LOW", 0) >>
StormAlerts ==
  << Alert("DOOR_FAULT", "HIGH", <<3>>), Alert("BRAKE_FAULT", "CRITICAL", 0),
     Alert("HVAC_FAULT", "MEDIUM", 3400), Alert("POWER_FAULT", "CRITICAL", 0),
     Alert("TRACTION_OVERHEAT", "HIGH", 12500),
     Alert("BATTERY_LOW", "MEDIUM", 7000), Alert("CCTV_PARTIAL", "LOW", 4),
     Alert("SCHEDULED_MAINTENANCE", "LOW", 0) >>

\* The telemetry payload of a train of depot MOC, as JSON.parse returns it:
\* the fields the backend reads. timestamp is the number of the message.
TrainPayload(trainId, timestamp, alerts) ==
  [ trainId |-> trainId, depotId |-> "MOC", depotName |-> "Mo Chit Depot",
    timestamp |-> timestamp, alerts |-> alerts ]

\* The payloads the n-th train message may carry.
TrainDraws(n) ==
  IF n <= FreeMessages
  THEN { TrainPayload("MOC-T01", n, QuietAlerts),
         TrainPayload("MOC-T01", n, DueAlerts),
         TrainPayload("MOC-T02", n, StormAlerts) }
  ELSE { TrainPayload("MOC-T01", n, StormAlerts) }

\* The readings of new Date() the registrations are followed through.
ClockReadings == {"12:00:00", "12:00:05"}

\* The registration payload of depot MOC.
DepotPayload == [ depotId |-> "MOC", depotName |-> "Mo Chit Depot" ]

\* The telemetry payload of a point machine of depot MOC.
PmPayload ==
  [ pmId |-> "MOC-PM-A1", depotId |-> "MOC", state |-> "NORMAL",
    position |-> "NORMAL", opCount |-> 1 ]

\* Array.prototype.slice: an index below 0 counts from the end, and every
\* index is clamped to 0..length.
sliceIndex(len, k) == IF k < 0 THEN Max2(len + k, 0) ELSE Min2(k, len)

\* arr.slice(start, end): the elements at the 0-based indices start..end-1.
slice(arr, start, end) ==
  LET from == sliceIndex(Len(arr), start)
      to == sliceIndex(Len(arr), end)
  IN  [i \in 1..(to - from) |-> arr[from + i]]

\* arr.splice(n): the array is cut down to its first n elements.
splice(arr, n) == slice(arr, 0, n)

\* arr.unshift(x): x is put in front.
unshift(arr, x) == <<x>> \o arr

\* The alert log entry {timestamp, trainId, depotId, depotName, ...alert}.
LogEntry(pl, alert) ==
  [ timestamp |-> pl.timestamp, trainId |-> pl.trainId,
    depotId |-> pl.depotId, depotName |-> pl.depotName,
    code |-> alert.code, severity |-> alert.severity, arg |-> alert.arg ]

\* Mutation of upsertTrain: the alerts are appended at the end of the log.
RECURSIVE pushAlerts(_, _, _)
pushAlerts(log, pl, i) ==
  IF i > Len(pl.alerts) THEN log
  ELSE pushAlerts(Append(log, LogEntry(pl, pl.alerts[i])), pl, i + 1)

upsertTrainPush(ts, log, pl) ==
  [ trains |-> [ts EXCEPT ![pl.trainId] = pl],
    alertLog |-> IF Len(pl.alerts) > 0
                 THEN LET pushed == pushAlerts(log, pl, 1)
                      IN  IF Len(pushed) > MAX_ALERT_LOG
                          THEN splice(pushed, MAX_ALERT_LOG) ELSE pushed
                 ELSE log ]

\* upsertTrain, the for loop from alert i on: each alert is put in front of
\* the log.
RECURSIVE unshiftAlerts(_, _, _)
unshiftAlerts(log, pl, i) ==
  IF i > Len(pl.alerts) THEN log
  ELSE unshiftAlerts(unshift(log, LogEntry(pl, pl.alerts[i])),
                     pl, i + 1)

\* upsertTrain(payload) on the maps ts and the log: the new trains and
\* alertLog.
upsertTrain(ts, log, pl) ==
  [ trains |-> [ts EXCEPT ![pl.trainId] = pl],
    alertLog |-> IF Len(pl.alerts) > 0
                 THEN LET unshifted == unshiftAlerts(log, pl, 1)
                      IN  IF Len(unshifted) > MAX_ALERT_LOG
                          THEN splice(unshifted, MAX_ALERT_LOG)
                          ELSE unshifted
                 ELSE log ]

\* getTrain(trainId): trains.get(trainId) || null.
getTrain(ts, trainId) ==
  IF trainId \in DOMAIN ts THEN ts[trainId] ELSE Null

\* upsertDepot(payload) at clock reading now: {...payload, lastSeen}.
upsertDepot(ds, pl, now) ==
  [ds EXCEPT ![pl.depotId] =
     [ depotId |-> pl.depotId, depotName |-> pl.depotName,
       lastSeen |-> now ]]

\* getAlertLog(limit): alertLog.slice(0, limit).
getAlertLog(log, limit) == slice(log, 0, limit)

\* The functions module.exports of store.js holds.
storeExports ==
  { "upsertTrain", "getAllTrains", "getTrainsByDepot", "getTrain",
    "upsertDepot", "getAllDepots", "getAlertLog", "getFleetSummary" }

\* What JSON.parse throws on a text that is no JSON value.
SyntaxError == [thrown |-> "SyntaxError"]

\* JSON.stringify(payload), as the tokens of the text; a text cut off before
\* its closing brace; an empty body.
stringify(pl) == << "{", pl, "}" >>
CutOff(pl) == << "{", pl >>
EmptyBody == << >>

\* Mutation of JSONparse: a text cut off before its end is read up to there.
JSONparseLenient(text) ==
  IF Len(text) >= 2 /\ text[1] = "{" THEN text[2] ELSE SyntaxError

\* JSON.parse(text): the value of a complete object text, else SyntaxError.
JSONparse(text) ==
  IF Len(text) = 3 /\ text[1] = "{" /\ text[3] = "}"
  THEN text[2] ELSE SyntaxError

\* A topic is the sequence of its levels. topic.endsWith("/" + level).
endsWith(topic, level) == Len(topic) > 1 /\ topic[Len(topic)] = level

\* topic.includes("/" + level + "/").
includes(topic, level) == \E i \in 2..(Len(topic) - 1) : topic[i] = level

TrainTopic(trainId) == << "railstream", "depot", "MOC", "train", trainId >>
DepotTopic == << "railstream", "depot", "MOC", "status" >>
PmTopic == << "railstream", "depot", "MOC", "pointmachine", "MOC-PM-A1" >>

\* (payload.alerts || []).filter(a => a.severity === "CRITICAL").
criticals(pl) == SelectSeq(pl.alerts, LAMBDA a : a.severity = "CRITICAL")

\* The messages that can arrive after n train messages were handled.
Messages(n) ==
  { [topic |-> TrainTopic(p.trainId), body |-> stringify(p)] :
      p \in (IF n < MaxMessages THEN TrainDraws(n + 1) ELSE {}) }
  \cup { [topic |-> TrainTopic(p.trainId), body |-> CutOff(p)] :
      p \in (IF n < MaxMessages THEN TrainDraws(n + 1) ELSE {}) }
  \cup { [topic |-> DepotTopic, body |-> stringify(DepotPayload)],
         [topic |-> DepotTopic, body |-> EmptyBody],
         [topic |-> PmTopic, body |-> stringify(PmPayload)] }

\* client.on("message"): one run of the handler. A body that does not parse
\* is dropped. On a status topic the depot is registered, on a point machine
\* topic store.upsertPointMachine is called, which store.js does not export:
\* the call throws TypeError before io.emit, and the error is either reported
\* by the client library or ends the process. On any other topic the train
\* payload is stored and relayed.
OnMessage ==
  /\ handler.ended # "uncaught"
  /\ \E msg \in Messages(Len(received)) :
       LET pl == JSONparse(msg.body) IN
       IF pl = SyntaxError
       THEN /\ handler' = [msg |-> msg, ended |-> "ignored"]
            /\ emitted' = << >>
            /\ UNCHANGED <<storeVars, received>>
       ELSE IF endsWith(msg.topic, "status")
       THEN /\ \E now \in ClockReadings : depots' = upsertDepot(depots, pl, now)
            /\ emitted' = << [name |-> "depot:update", data |-> pl] >>
            /\ handler' = [msg |-> msg, ended |-> "returned"]
            /\ UNCHANGED <<trains, alertLog, received>>
       ELSE IF includes(msg.topic, "pointmachine")
       THEN /\ "upsertPointMachine" \notin storeExports
            /\ emitted' = << >>
            /\ \E end \in {"TypeError", "uncaught"} :
                 handler' = [msg |-> msg, ended |-> end]
            /\ UNCHANGED <<storeVars, received>>
       ELSE LET stored == upsertTrain(trains, alertLog, pl) IN
            /\ trains' = stored.trains
            /\ alertLog' = stored.alertLog
            /\ received' = Append(received, pl)
            /\ emitted' =
                 << [name |-> "train:update", data |-> pl] >>
                 \o (IF Len(criticals(pl)) > 0
                     THEN << [ name |-> "alert:critical",
                               data |-> [ trainId |-> pl.trainId,
                                          depotId |-> pl.depotId,
                                          depotName |-> pl.depotName,
                                          alerts |-> criticals(pl),
                                          timestamp |-> pl.timestamp ] ] >>
                     ELSE << >>)
            /\ handler' = [msg |-> msg, ended |-> "returned"]
            /\ UNCHANGED depots
  /\ reply' = NoReply
  /\ UNCHANGED <<engineVars, agentVars, simVars, pmVars, pickVars>>

\* The limit parameters GET /alerts is followed through: none, and the
\* numbers parseInt reads.
LimitQueries == {<< >>, <<0>>, <<3>>, <<250>>}

\* GET /api/alerts?limit=q: the first min(q or 50, 200) entries of the log.
GetAlerts ==
  /\ handler.ended # "uncaught"
  /\ \E q \in LimitQueries :
       LET limit == Min2(IF q = << >> THEN 50 ELSE q[1], 200) IN
       reply' = [ route |-> "/alerts", status |-> 200, limit |-> limit,
                  body |-> getAlertLog(alertLog, limit) ]
  /\ handler' = Idle
  /\ emitted' = << >>
  /\ UNCHANGED <<engineVars, agentVars, simVars, pmVars, pickVars, storeVars,
                 received>>

\* GET /api/trains/:trainId: the train, or 404 when the store holds none.
GetTrain ==
  /\ handler.ended # "uncaught"
  /\ \E trainId \in StoreTrains \cup {"MOC-T99"} :
       LET train == getTrain(trains, trainId) IN
       reply' = IF train = Null
                THEN [ route |-> "/trains/:trainId", status |-> 404,
                       trainId |-> trainId ]
                ELSE [ route |-> "/trains/:trainId", status |-> 200,
                       trainId |-> trainId, body |-> train ]
  /\ handler' = Idle
  /\ emitted' = << >>
  /\ UNCHANGED <<engineVars, agentVars, simVars, pmVars, pickVars, storeVars,
                 received>>

\* GET /api/pointmachines: store.getAllPointMachines is called, which
\* store.js does not export; the TypeError thrown in the route handler is
\* answered by Express with status 500.
GetPointMachines ==
  /\ handler.ended # "uncaught"
  /\ reply' = IF "getAllPointMachines" \in storeExports
              THEN [ route |-> "/pointmachines", status |-> 200 ]
              ELSE [ route |-> "/pointmachines", status |-> 500 ]
  /\ handler' = Idle
  /\ emitted' = << >>
  /\ UNCHANGED <<engineVars, agentVars, simVars, pmVars, pickVars, storeVars,
                 received>>

BackendNext == OnMessage \/ GetAlerts \/ GetTrain \/ GetPointMachines

SpecBackend == Init /\ [][BackendNext]_vars
\* The last operation handled a well-formed message on a point machine topic.
HandledPm ==
  /\ handler.ended # "idle"
  /\ includes(handler.msg.topic, "pointmachine")
  /\ JSONparse(handler.msg.body) # SyntaxError

\* C37: a well-formed point machine message is handled without an error that
\* aborts the handler and is relayed to the dashboard clients as one
\* pm:update event with the payload, and the point machine query answers.
C37_PointMachineStoredAndRelayed ==
  /\ HandledPm =>
       /\ handler.ended = "returned"
       /\ emitted = << [name |-> "pm:update", data |-> JSONparse(handler.msg.body)] >>
  /\ reply.route = "/pointmachines" => reply.status = 200
\* The number of alerts of the payloads upserted after the k-th.
RECURSIVE AlertsAfter(_)
AlertsAfter(k) ==
  IF k >= Len(received) THEN 0
  ELSE Len(received[k + 1].alerts) + AlertsAfter(k + 1)

\* The log entries of the k-th payload upserted (its timestamp is k).
EntriesOf(k) == SelectSeq(alertLog, LAMBDA e : e.timestamp = k)

\* The last of the first k payloads upserted that carries trainId, else null.
RECURSIVE Latest(_, _)
Latest(trainId, k) ==
  IF k = 0 THEN Null
  ELSE IF received[k].trainId = trainId THEN received[k]
  ELSE Latest(trainId, k - 1)

\* The limits getAlertLog is asked with.
Limits == {0, 3, 50, 200, 250}

\* C38: after any sequence of upsertTrain calls the alert log holds the
\* min(200, number of alerts upserted) newest entries: an entry of a later
\* payload stands before every entry of an earlier one, and of each payload
\* exactly the alerts are left that the later payloads' alerts leave room
\* for within 200. getAlertLog(limit) is the first min(limit, length)
\* entries, and getTrain(id) is the payload upserted last for id.
C38_AlertLogNewestFirst ==
  /\ Len(alertLog) = Min2(AlertsAfter(0), 200)
  /\ \A i \in 1..(Len(alertLog) - 1) :
       alertLog[i].timestamp >= alertLog[i + 1].timestamp
  /\ \A k \in 1..Len(received) :
       LET left == EntriesOf(k) IN
       /\ Len(left) = Max2(0, Min2(Len(received[k].alerts), 200 - AlertsAfter(k)))
       /\ \A i \in 1..Len(left) : \E a \in 1..Len(received[k].alerts) :
            left[i] = LogEntry(received[k], received[k].alerts[a])
  /\ \A limit \in Limits :
       LET got == getAlertLog(alertLog, limit) IN
       /\ Len(got) = Min2(limit, Len(alertLog))
       /\ \A i \in 1..Len(got) : got[i] = alertLog[i]
  /\ reply.route = "/alerts" =>
       /\ Len(reply.body) = Min2(reply.limit, Len(alertLog))
       /\ \A i \in 1..Len(reply.body) : reply.body[i] = alertLog[i]
  /\ \A trainId \in StoreTrains :
       getTrain(trains, trainId) = Latest(trainId, Len(received))
  /\ (reply.route = "/trains/:trainId" /\ reply.status = 200) =>
       reply.body = Latest(reply.trainId, Len(received))

\* More than 200 alerts were upserted: the log is full, one alert of the
\* first payload was dropped and seven are left, the first 50 entries were
\* asked for, and the second train's payload is still the first one.
C38_Witness ==
  /\ AlertsAfter(0) > 200
  /\ Len(alertLog) = 200
  /\ Len(received[1].alerts) = 8
  /\ Len(EntriesOf(1)) = 7
  /\ reply.route = "/alerts"
  /\ Len(reply.body) = 50
  /\ trains["MOC-T02"] = received[1]
  /\ trains["MOC-T01"] = received[Len(received)]
\* The text is the complete JSON text of an object.
WellFormed(text) == Len(text) = 3 /\ text = stringify(text[2])

\* The last operation handled a message whose body is no JSON text.
Malformed(h) == h.ended # "idle" /\ ~WellFormed(h.msg.body)

\* The last operation handled a well-formed message on a train topic.
HandledTrain(h) ==
  /\ h.ended # "idle"
  /\ WellFormed(h.msg.body)
  /\ ~endsWith(h.msg.topic, "status")
  /\ ~includes(h.msg.topic, "pointmachine")

\* The last operation handled a well-formed message on a status topic.
HandledDepot(h) ==
  /\ h.ended # "idle"
  /\ WellFormed(h.msg.body)
  /\ endsWith(h.msg.topic, "status")

\* C39: the handler run of a message whose body is no valid JSON returns
\* with the train store, the depot registry and the alert log unchanged and
\* without an event emitted; a well-formed train or depot message handled
\* right after a malformed one is stored and relayed as any other.
C39_MalformedIgnored ==
  [][ /\ Malformed(handler') =>
           /\ handler'.ended = "ignored"
           /\ trains' = trains /\ depots' = depots /\ alertLog' = alertLog
           /\ received' = received
           /\ emitted' = << >>
      /\ (Malformed(handler) /\ HandledTrain(handler')) =>
           LET pl == handler'.msg.body[2] IN
           /\ handler'.ended = "returned"
           /\ trains'[pl.trainId] = pl
           /\ alertLog' = upsertTrain(trains, alertLog, pl).alertLog
           /\ emitted'[1] = [name |-> "train:update", data |-> pl]
      /\ (Malformed(handler) /\ HandledDepot(handler')) =>
           LET pl == handler'.msg.body[2] IN
           /\ handler'.ended = "returned"
           /\ depots'[pl.depotId] # Null
           /\ depots'[pl.depotId].depotName = pl.depotName
           /\ emitted' = << [name |-> "depot:update", data |-> pl] >>
    ]_vars

\* A cut-off train message was dropped with a train, a depot and alerts in
\* the store.
C39_Witness ==
  /\ Malformed(handler)
  /\ ~endsWith(handler.msg.topic, "status")
  /\ emitted = << >>
  /\ Len(alertLog) = 9
  /\ trains["MOC-T02"] # Null
  /\ depots["MOC"] # Null

============================================================================
